---- MODULE Spec2Model ----
(***************************************************************************)
(* Model of backend/flux_stt_service.py: DeepgramFluxSTTService, one       *)
(* session object driven by an asyncio event loop.                         *)
(*                                                                         *)
(* asyncio is cooperative: the code between two suspension points (await   *)
(* of the socket, of a timer, of another task, of a caller-supplied        *)
(* callback) runs atomically.  Every action below is one such segment of   *)
(* one coroutine.  Time enters as the age of the last audio only.         *)
(***************************************************************************)
EXTENDS Integers, Sequences, FiniteSets, TLC

\* ------------------------------------------------------------------ bounds
MaxSockets == 2      \* sockets websocket_connect may open in one behaviour
MaxInbox == 1        \* inbound frames buffered on one socket
MaxCallers == 2      \* caller tasks that may be inside the session at once
MaxConnections == 3  \* client WebSockets the ConnectionManager may be given
MaxBroadcasts == 1   \* broadcast_message calls in one behaviour

Callers == 1..MaxCallers
Socks == 1..MaxSockets
None == 0

\* time.monotonic() - self._last_audio_time, as far as the watchdog tells
\* ages apart: NoAudio when the timestamp is None, else at most 0.5 s (Fresh)
\* or more than 0.5 s (Stale).
NoAudio == "none"
Fresh == "fresh"
Stale == "stale"

\* ------------------------------------------------------------ inbound frames
\* A frame as the receive loop sees it: binary or text; the text is invalid
\* JSON, a JSON value that is not an object, or an object with the fields the
\* handlers read.  type/event "" stand for a missing key.
Frame(bin, json, type, event, transcript, words) ==
    [bin |-> bin, json |-> json, type |-> type, event |-> event,
     transcript |-> transcript, words |-> words]

NonString == "<null>"   \* a transcript that is JSON null or a number
\* The "words" of a payload: absent, a list of objects or a list of other
\* values; conf is each entry's "confidence" in percent (-1 when it has no
\* number), and round whether binary64 rounds sum(confidences) /
\* len(confidences) below (-1) or above (1) the exact mean, or not at all (0).
Words(shape, conf, round) == [shape |-> shape, conf |-> conf, round |-> round]
NoWords == Words("absent", <<>>, 0)

FConnected == Frame(FALSE, "object", "Connected", "", "", NoWords)
FStartOfTurn == Frame(FALSE, "object", "TurnInfo", "StartOfTurn", "hi", NoWords)
FUpdate == Frame(FALSE, "object", "TurnInfo", "Update", "hi", NoWords)
FEndOfTurn == Frame(FALSE, "object", "TurnInfo", "EndOfTurn", "hi", NoWords)
\* EndOfTurn payloads for the confidence filter: means of 90, 50 and 70
\* percent; FEndThirds is three words of confidence 0.7, for which Python
\* computes (0.7 + 0.7 + 0.7) / 3 = 0.6999999999999998.
FEndHigh == Frame(FALSE, "object", "TurnInfo", "EndOfTurn", "hi",
                  Words("objects", <<90, 90>>, 0))
FEndLow == Frame(FALSE, "object", "TurnInfo", "EndOfTurn", "hi",
                 Words("objects", <<50, -1>>, 0))
FEndEven == Frame(FALSE, "object", "TurnInfo", "EndOfTurn", "hi",
                  Words("objects", <<70>>, 0))
FEndThirds == Frame(FALSE, "object", "TurnInfo", "EndOfTurn", "hi",
                    Words("objects", <<70, 70, 70>>, -1))
\* The other TurnInfo events: an Update without text, and an EagerEndOfTurn
\* whose words have a mean confidence of 50 percent.
FTurnResumed == Frame(FALSE, "object", "TurnInfo", "TurnResumed", "", NoWords)
FUpdateEmpty == Frame(FALSE, "object", "TurnInfo", "Update", "", NoWords)
FEagerLow == Frame(FALSE, "object", "TurnInfo", "EagerEndOfTurn", "hi",
                   Words("objects", <<50>>, 0))
\* An EndOfTurn whose words carry no number, and one with no words in it.
FEndNoNumbers == Frame(FALSE, "object", "TurnInfo", "EndOfTurn", "hi",
                       Words("objects", <<-1, -1>>, 0))
FEndNoWords == Frame(FALSE, "object", "TurnInfo", "EndOfTurn", "hi",
                     Words("objects", <<>>, 0))
\* Valid TurnInfo messages of an unexpected shape: an EagerEndOfTurn whose
\* transcript is null, and an EndOfTurn whose words are strings.
FEagerNull == Frame(FALSE, "object", "TurnInfo", "EagerEndOfTurn", NonString,
                    NoWords)
FEndStrings == Frame(FALSE, "object", "TurnInfo", "EndOfTurn", "hi",
                     Words("nonobjects", <<-1, -1>>, 0))
\* A binary frame, a message of another type, and TurnInfo messages with an
\* event the enum does not have and with none.
FBinary == Frame(TRUE, "", "", "", "", NoWords)
FUnknownType == Frame(FALSE, "object", "Metadata", "", "", NoWords)
FUnknownEvent == Frame(FALSE, "object", "TurnInfo", "SpeechStarted", "hi", NoWords)
FNoEvent == Frame(FALSE, "object", "TurnInfo", "", "hi", NoWords)
FNotJson == Frame(FALSE, "invalid", "", "", "", NoWords)
FNoType == Frame(FALSE, "object", "", "StartOfTurn", "hi", NoWords)
FNotObject == Frame(FALSE, "array", "", "", "", NoWords)
\* {"type": "Error", ...}: the server's fatal error message.
FError == Frame(FALSE, "object", "Error", "", "", NoWords)

Frames == {FConnected, FStartOfTurn, FUpdate, FEndOfTurn, FNotJson, FNoType,
           FNotObject}

VARIABLES
    websocket,               \* self._websocket: a socket id, or None
    receive_task,            \* self._receive_task: the socket whose loop it is, or None
    watchdog_task,           \* self._watchdog_task, likewise
    connection_established,  \* self._connection_established.is_set()
    user_is_speaking,        \* self._user_is_speaking
    audio_age,               \* ticks since self._last_audio_time, NoAudio when it is None
    sockState,               \* per socket: "unopened", "OPEN", "CLOSING", "CLOSED"
    inbox,                   \* per socket: frames received and not yet consumed
    recv,                    \* per socket: the task running _receive_messages
    wd,                      \* per socket: the task running _watchdog_handler
    caller,                  \* per caller task: the public call it is inside
    acked,                   \* per socket: its receive loop has handled a "Connected"
    connected_calls,         \* per socket: on_connected invocations for it (up to 2)
    arrivals,                \* the buffered frames' sockets, in order of arrival
    websocket_url,           \* self._websocket_url as a sequence of characters, <<>> when None
    params,                  \* the configuration given to __init__ and the handlers set
    env,                     \* the callers, and what the server and the handlers may do
    active_connections,      \* ConnectionManager.active_connections, a list
    client,                  \* per client WebSocket: where its endpoint is with the manager
    broadcast                \* per broadcast_message call: its locals and its history

vars == <<websocket, receive_task, watchdog_task, connection_established,
          user_is_speaking, audio_age, sockState, inbox, recv, wd,
          caller, acked, connected_calls, arrivals, websocket_url, params,
          env, active_connections, client, broadcast>>

\* --------------------------------------------------------- message handling
\* What handling one frame does, as the code between the receive and the next
\* suspension computes it: the new turn flag, whether the pending-connect
\* event is set, the callback awaited (NoCb when none), and whether an
\* exception other than JSONDecodeError escapes to the loop's outer handler.
NoCb == "none"
Effect(speaking, set, cb, raises) ==
    [speaking |-> speaking, set |-> set, cb |-> cb, raises |-> raises]

Handler(name) == IF name \in params.handlers THEN name ELSE NoCb

\* sum(confidences) / len(confidences) over the entries that carry a number;
\* None when there is no usable list.  Confidences are percentages; the
\* result is <<sum, count, round>>: the exact mean sum / count and the
\* direction in which the floating-point quotient is off it.
RECURSIVE SumSeq(_)
SumSeq(q) == IF q = <<>> THEN 0 ELSE Head(q) + SumSeq(Tail(q))

Numeric(q) == SelectSeq(q, LAMBDA x : x >= 0)

calculate_average_confidence(f) ==
    IF f.words.shape # "objects" \/ f.words.conf = <<>> THEN <<0, 0, 0>>
    ELSE <<SumSeq(Numeric(f.words.conf)), Len(Numeric(f.words.conf)),
           f.words.round>>

ConfidenceRaises(f) == f.words.shape = "nonobjects" /\ f.words.conf # <<>>

\* avg_confidence is not None and avg_confidence < self._params.min_confidence
BelowThreshold(avg) ==
    /\ avg[2] > 0
    /\ \/ avg[1] < params.min_confidence * avg[2]
       \/ avg[1] = params.min_confidence * avg[2] /\ avg[3] < 0

\* A handler that takes note of the turn only when someone listens.
handle_start_of_turn_if_set(f, speaking) ==
    Effect(speaking \/ Handler("on_start_of_turn") # NoCb, FALSE,
           Handler("on_start_of_turn"), FALSE)

handle_start_of_turn(f, speaking) ==
    Effect(TRUE, FALSE, Handler("on_start_of_turn"), FALSE)

handle_turn_resumed(f, speaking) ==
    Effect(speaking, FALSE, Handler("on_turn_resumed"), FALSE)

\* A filter that lets through only what it has measured.
handle_end_of_turn_unless_sure(f, speaking) ==
    IF params.min_confidence # 0 /\ ConfidenceRaises(f)
    THEN Effect(FALSE, FALSE, NoCb, TRUE)
    ELSE IF params.min_confidence # 0
            /\ (\/ BelowThreshold(calculate_average_confidence(f))
                \/ calculate_average_confidence(f)[2] = 0)
    THEN Effect(FALSE, FALSE, NoCb, FALSE)
    ELSE Effect(FALSE, FALSE, Handler("on_end_of_turn"), FALSE)

handle_end_of_turn(f, speaking) ==
    IF params.min_confidence # 0 /\ ConfidenceRaises(f)
    THEN Effect(FALSE, FALSE, NoCb, TRUE)
    ELSE IF params.min_confidence # 0
            /\ BelowThreshold(calculate_average_confidence(f))
    THEN Effect(FALSE, FALSE, NoCb, FALSE)
    ELSE Effect(FALSE, FALSE, Handler("on_end_of_turn"), FALSE)

\* A handler that takes the hint for the end of the turn.
handle_eager_end_of_turn_commits(f, speaking) ==
    IF f.transcript = NonString THEN Effect(speaking, FALSE, NoCb, TRUE)
    ELSE Effect(FALSE, FALSE, Handler("on_eager_end_of_turn"), FALSE)

\* len(transcript) in the debug line raises when the transcript has no length.
handle_eager_end_of_turn(f, speaking) ==
    IF f.transcript = NonString THEN Effect(speaking, FALSE, NoCb, TRUE)
    ELSE Effect(speaking, FALSE, Handler("on_eager_end_of_turn"), FALSE)

\* A handler that passes every Update on, with or without text.
handle_update_always(f, speaking) ==
    Effect(speaking, FALSE, Handler("on_update"), FALSE)

handle_update(f, speaking) ==
    IF f.transcript # "" THEN Effect(speaking, FALSE, Handler("on_update"), FALSE)
    ELSE Effect(speaking, FALSE, NoCb, FALSE)

\* A dispatch whose enum lookup is not guarded: ValueError escapes.
handle_turn_info_strict(f, speaking) ==
    CASE f.event = "StartOfTurn" -> handle_start_of_turn(f, speaking)
      [] f.event = "TurnResumed" -> handle_turn_resumed(f, speaking)
      [] f.event = "EndOfTurn" -> handle_end_of_turn(f, speaking)
      [] f.event = "EagerEndOfTurn" -> handle_eager_end_of_turn(f, speaking)
      [] f.event = "Update" -> handle_update(f, speaking)
      [] OTHER -> Effect(speaking, FALSE, NoCb, TRUE)

handle_turn_info(f, speaking) ==
    CASE f.event = "StartOfTurn" -> handle_start_of_turn(f, speaking)
      [] f.event = "TurnResumed" -> handle_turn_resumed(f, speaking)
      [] f.event = "EndOfTurn" -> handle_end_of_turn(f, speaking)
      [] f.event = "EagerEndOfTurn" -> handle_eager_end_of_turn(f, speaking)
      [] f.event = "Update" -> handle_update(f, speaking)
      [] OTHER -> Effect(speaking, FALSE, NoCb, FALSE)

handle_connection_established(f, speaking) ==
    Effect(speaking, TRUE, NoCb, FALSE)

handle_fatal_error(f, speaking) ==
    Effect(speaking, FALSE, Handler("on_error"), FALSE)

handle_message(f, speaking) ==
    IF f.json # "object" \/ f.type = "" THEN Effect(speaking, FALSE, NoCb, FALSE)
    ELSE CASE f.type = "Connected" -> handle_connection_established(f, speaking)
           [] f.type = "Error" -> handle_fatal_error(f, speaking)
           [] f.type = "TurnInfo" -> handle_turn_info(f, speaking)
           [] OTHER -> Effect(speaking, FALSE, NoCb, FALSE)

\* A loop whose JSON decoding error escapes to the outer handler.
receive_one_decode_escapes(f, speaking) ==
    IF f.bin THEN Effect(speaking, FALSE, NoCb, FALSE)
    ELSE IF f.json = "invalid" THEN Effect(speaking, FALSE, NoCb, TRUE)
    ELSE handle_message(f, speaking)

\* The body of the async-for in _receive_messages for one frame.
receive_one(f, speaking) ==
    IF f.bin THEN Effect(speaking, FALSE, NoCb, FALSE)
    ELSE IF f.json = "invalid" THEN Effect(speaking, FALSE, NoCb, FALSE)
    ELSE handle_message(f, speaking)

\* ------------------------------------------------------------------- tasks
\* A task: where it is suspended ("none" before create_task, "run" at its
\* own await: the socket receive or the tick sleep; "cb" in a callback;
\* "send" in a silence send; "done"), whether a cancellation is pending, the
\* callback it awaits, whether the loop ends after it, and whether that
\* callback suppresses cancellation and never returns.  For a receive loop,
\* turn records that it has handled a StartOfTurn and not yet the EndOfTurn
\* after it, and skip why it ignored the last frame it took ("" when it did
\* not).  raised records, for a watchdog, that the silence send of its last
\* pass raised, and for a receive loop that a callback it awaited raised.
NoTask == [pc |-> "none", cancel |-> FALSE, cb |-> NoCb, last |-> FALSE,
           stubborn |-> FALSE, turn |-> FALSE, skip |-> "", raised |-> FALSE,
           at |-> "", t |-> None]
NewTask == [NoTask EXCEPT !.pc = "run"]
DoneTask == [NoTask EXCEPT !.pc = "done"]

\* A caller task: the public call it is in (or was last in), where that call
\* is suspended, the task or socket it waits for, whether the event woke it,
\* and the call's result.  The rest records the call's history: the socket it
\* opened, whether its wait for the ack timed out, and how often it invoked
\* on_error and on_disconnected (counted up to 2).
\* before counts the on_disconnected invocations of the stop() calls made
\* just before this call, back to back (0 when the last call was no stop()).
Idle == [op |-> "none", pc |-> "idle", t |-> None, ack |-> FALSE, ret |-> "none",
         sock |-> None, timedout |-> FALSE, errors |-> 0, disconnects |-> 0,
         before |-> 0]

IsOpen(ws, st) == ws # None /\ st[ws] = "OPEN"

AllHandlers == {"on_connected", "on_disconnected", "on_start_of_turn",
                "on_end_of_turn", "on_eager_end_of_turn", "on_update",
                "on_turn_resumed", "on_error"}

\* ------------------------------------------------------------ configuration
\* Strings are sequences of characters.  An Optional field is <<>> when it
\* is None and <<v>> when it is set; a float is given in tenths.
Url == <<"w", "s", "s", ":", "/", "/", "d", "g", "/", "v", "2">>
Flux == <<"f", "l", "u", "x">>
Linear16 == <<"l", "i", "n", "e", "a", "r", "1", "6">>

\* The arguments of __init__ with their defaults, FluxInputParams() and the
\* callbacks set before start().
DefaultParams ==
    [url |-> Url, model |-> Flux, sample_rate |-> 16000, encoding |-> Linear16,
     eager_eot_threshold |-> <<>>, eot_threshold |-> <<>>,
     eot_timeout_ms |-> <<>>, keyterm |-> <<>>, mip_opt_out |-> <<>>,
     tag |-> <<>>, min_confidence |-> 0, handlers |-> AllHandlers]

\* f"{n}" of a non-negative int.
RECURSIVE Decimal(_)
Decimal(n) ==
    LET digit == <<"0", "1", "2", "3", "4", "5", "6", "7", "8", "9">>[(n % 10) + 1] IN
    IF n < 10 THEN <<digit>> ELSE Decimal(n \div 10) \o <<digit>>

\* f"{x}" of a float of t tenths: repr gives the shortest decimal.
FloatRepr(t) == Decimal(t \div 10) \o <<".">> \o Decimal(t % 10)

\* str(b).lower()
Lower(str) ==
    [i \in 1..Len(str) |-> IF str[i] = "T" THEN "t"
                           ELSE IF str[i] = "F" THEN "f" ELSE str[i]]
BoolStr(b) == IF b THEN <<"T", "r", "u", "e">> ELSE <<"F", "a", "l", "s", "e">>

\* urllib.parse.quote_plus: letters, digits and _.-~ are kept, a space
\* becomes "+", any other character its %XX escape.
Escapes == [c \in {"&", ",", "=", "+", "%", "?"} |->
               CASE c = "&" -> <<"%", "2", "6">>
                 [] c = "," -> <<"%", "2", "C">>
                 [] c = "=" -> <<"%", "3", "D">>
                 [] c = "+" -> <<"%", "2", "B">>
                 [] c = "%" -> <<"%", "2", "5">>
                 [] c = "?" -> <<"%", "3", "F">>]

RECURSIVE quote_plus(_)
quote_plus(str) ==
    IF str = <<>> THEN <<>>
    ELSE (IF Head(str) = " " THEN <<"+">>
          ELSE IF Head(str) \in DOMAIN Escapes THEN Escapes[Head(str)]
          ELSE <<Head(str)>>) \o quote_plus(Tail(str))

\* urlencode({name: value})
urlencode(name, value) == quote_plus(name) \o <<"=">> \o quote_plus(value)

\* f"{name}={value}" for an already formatted value.
Param(name, value) == name \o <<"=">> \o value

\* "&".join(parts)
RECURSIVE Join(_)
Join(parts) ==
    IF parts = <<>> THEN <<>>
    ELSE IF Len(parts) = 1 THEN Head(parts)
    ELSE Head(parts) \o <<"&">> \o Join(Tail(parts))

\* The names of the query parameters.
Keys ==
    [model |-> <<"m", "o", "d", "e", "l">>,
     sample_rate |-> <<"s", "a", "m", "p", "l", "e", "_", "r", "a", "t", "e">>,
     encoding |-> <<"e", "n", "c", "o", "d", "i", "n", "g">>,
     eager_eot_threshold |-> <<"e", "a", "g", "e", "r", "_", "e", "o", "t", "_",
                               "t", "h", "r", "e", "s", "h", "o", "l", "d">>,
     eot_threshold |-> <<"e", "o", "t", "_", "t", "h", "r", "e", "s", "h", "o", "l", "d">>,
     eot_timeout_ms |-> <<"e", "o", "t", "_", "t", "i", "m", "e", "o", "u", "t", "_",
                          "m", "s">>,
     mip_opt_out |-> <<"m", "i", "p", "_", "o", "p", "t", "_", "o", "u", "t">>,
     keyterm |-> <<"k", "e", "y", "t", "e", "r", "m">>,
     tag |-> <<"t", "a", "g">>]

\* A query with the keyterm and tag values put in as they are.
url_params_unescaped ==
    LET P == params
        Opt(name, field, fmt(_)) ==
            IF field = <<>> THEN <<>> ELSE <<Param(name, fmt(field[1]))>>
        Each(name, list) == [i \in 1..Len(list) |-> Param(name, list[i])]
    IN  <<Param(Keys.model, P.model),
          Param(Keys.sample_rate, Decimal(P.sample_rate)),
          Param(Keys.encoding, P.encoding)>>
        \o Opt(Keys.eager_eot_threshold, P.eager_eot_threshold, FloatRepr)
        \o Opt(Keys.eot_threshold, P.eot_threshold, FloatRepr)
        \o Opt(Keys.eot_timeout_ms, P.eot_timeout_ms, Decimal)
        \o Opt(Keys.mip_opt_out, P.mip_opt_out, LAMBDA b : Lower(BoolStr(b)))
        \o Each(Keys.keyterm, P.keyterm)
        \o Each(Keys.tag, P.tag)

\* url_params as _build_websocket_url collects them.
url_params ==
    LET P == params
        Opt(name, field, fmt(_)) ==
            IF field = <<>> THEN <<>> ELSE <<Param(name, fmt(field[1]))>>
        Each(name, list) == [i \in 1..Len(list) |-> urlencode(name, list[i])]
    IN  <<Param(Keys.model, P.model),
          Param(Keys.sample_rate, Decimal(P.sample_rate)),
          Param(Keys.encoding, P.encoding)>>
        \o Opt(Keys.eager_eot_threshold, P.eager_eot_threshold, FloatRepr)
        \o Opt(Keys.eot_threshold, P.eot_threshold, FloatRepr)
        \o Opt(Keys.eot_timeout_ms, P.eot_timeout_ms, Decimal)
        \o Opt(Keys.mip_opt_out, P.mip_opt_out, LAMBDA b : Lower(BoolStr(b)))
        \o Each(Keys.keyterm, P.keyterm)
        \o Each(Keys.tag, P.tag)

\* self._websocket_url = f"{self._url}?{'&'.join(url_params)}"
build_websocket_url == params.url \o <<"?">> \o Join(url_params)

\* --------------------------------------------------------- ConnectionManager
Connections == 1..MaxConnections
Broadcasts == 1..MaxBroadcasts

\* One broadcast_message call: where it is suspended, the list iterator's
\* index, the connection it sends to, and its locals.  The rest is history:
\* how often it sent to each connection (up to 2), the connections whose
\* send returned and whose send raised, those in the list ever since the
\* call began, and whether it called _send_push_notification.
NoBroadcast ==
    [pc |-> "idle", i |-> 0, connection |-> None, dead_connections |-> <<>>,
     delivered_via_ws |-> FALSE, attempts |-> [w \in Connections |-> 0],
     sent |-> {}, raised |-> {}, steady |-> {}, pushed |-> FALSE]

\* ConnectionManager(): no connection, no client, no broadcast.
NoManager ==
    /\ active_connections = <<>>
    /\ client = [w \in Connections |-> "new"]
    /\ broadcast = [b \in Broadcasts |-> NoBroadcast]

Members(list) == {list[k] : k \in 1..Len(list)}

\* list.remove(w): the list without its first w.
RECURSIVE Remove(_, _)
Remove(list, w) ==
    IF list = <<>> THEN <<>>
    ELSE IF Head(list) = w THEN Tail(list)
    ELSE <<Head(list)>> \o Remove(Tail(list), w)

\* disconnect(): if websocket in self.active_connections: remove it.
disconnect(list, w) == IF w \in Members(list) THEN Remove(list, w) ELSE list

\* for dead in dead_connections: self.disconnect(dead)
RECURSIVE disconnect_dead(_, _)
disconnect_dead(list, dead) ==
    IF dead = <<>> THEN list
    ELSE disconnect_dead(disconnect(list, Head(dead)), Tail(dead))

\* A fallback for every broadcast that had a failure.
fallback_after_failure(call) ==
    ~call.delivered_via_ws \/ call.dead_connections # <<>>

\* if not delivered_via_ws: await self._send_push_notification(...)
fallback(call) == ~call.delivered_via_ws

\* After the WebSocket part: the push fallback, or the return.
broadcast_fallback(call) ==
    IF fallback(call) THEN [call EXCEPT !.pc = "push", !.pushed = TRUE]
    ELSE [call EXCEPT !.pc = "done"]

\* The list iterator's next step over list: the element at its index, or the
\* end of the loop.
HasNext(call, list) == call.i < Len(list)

broadcast_send(call, list) ==
    [call EXCEPT !.pc = "send", !.connection = list[call.i + 1], !.i = @ + 1,
                 !.attempts[list[call.i + 1]] = IF @ < 2 THEN @ + 1 ELSE @]

\* The broadcasts other than b no longer count connections gone as having
\* been in the list throughout.
Unsteady(bc, b, gone) ==
    [x \in Broadcasts |->
        IF x # b /\ bc[x].pc \notin {"idle", "done"}
        THEN [bc[x] EXCEPT !.steady = @ \ gone] ELSE bc[x]]

Service == <<websocket, receive_task, watchdog_task, connection_established,
             user_is_speaking, audio_age, sockState, inbox, recv, wd,
             caller, acked, connected_calls, arrivals, websocket_url, params,
             env>>

\* connect(): await websocket.accept()
ConnectCall(w) ==
    /\ client[w] = "new"
    /\ client' = [client EXCEPT ![w] = "accepting"]
    /\ UNCHANGED <<active_connections, broadcast, Service>>

\* accept() returned: self.active_connections.append(websocket); or it
\* raised, and connect() with it.
ConnectAccepted(w) ==
    /\ client[w] = "accepting"
    /\ \/ /\ active_connections' = Append(active_connections, w)
          /\ client' = [client EXCEPT ![w] = "connected"]
       \/ /\ client' = [client EXCEPT ![w] = "gone"]
          /\ UNCHANGED active_connections
    /\ UNCHANGED <<broadcast, Service>>

\* The endpoint of a connected client calls disconnect(websocket).
DisconnectCall(w) ==
    /\ client[w] = "connected"
    /\ active_connections' = disconnect(active_connections, w)
    /\ client' = [client EXCEPT ![w] = "gone"]
    /\ broadcast' = Unsteady(broadcast, 0, {w})
    /\ UNCHANGED Service

\* broadcast_message up to its first await: the first send_json, or the
\* push fallback when the list is empty.
BroadcastCall(b) ==
    /\ broadcast[b].pc = "idle"
    /\ LET call == [broadcast[b] EXCEPT !.steady = Members(active_connections)] IN
       broadcast' = [broadcast EXCEPT ![b] =
           IF active_connections # <<>> THEN broadcast_send(call, active_connections)
           ELSE broadcast_fallback(call)]
    /\ UNCHANGED <<active_connections, client, Service>>

\* send_json returned or raised; the loop goes on with the list as it is
\* now, and after it the dead connections are removed.
SendJsonDone(b) ==
    /\ broadcast[b].pc = "send"
    /\ \E ok \in BOOLEAN :
          LET w == broadcast[b].connection
              call == IF ok
                      THEN [broadcast[b] EXCEPT !.delivered_via_ws = TRUE,
                                                !.sent = @ \cup {w}]
                      ELSE [broadcast[b] EXCEPT !.dead_connections = Append(@, w),
                                                !.raised = @ \cup {w}] IN
          IF HasNext(call, active_connections)
          THEN /\ broadcast' = [broadcast EXCEPT ![b] =
                                    broadcast_send(call, active_connections)]
               /\ UNCHANGED active_connections
          ELSE /\ active_connections' =
                      disconnect_dead(active_connections, call.dead_connections)
               /\ broadcast' = [Unsteady(broadcast, b, Members(call.dead_connections))
                                    EXCEPT ![b] = broadcast_fallback(call)]
    /\ UNCHANGED <<client, Service>>

\* _send_push_notification returned, having posted to Expo or found no
\* token to post to.
PushDone(b) ==
    /\ broadcast[b].pc = "push"
    /\ broadcast' = [broadcast EXCEPT ![b].pc = "done"]
    /\ UNCHANGED <<active_connections, client, Service>>

NextManager ==
    \/ \E w \in Connections : ConnectCall(w)
    \/ \E w \in Connections : ConnectAccepted(w)
    \/ \E w \in Connections : DisconnectCall(w)
    \/ \E b \in Broadcasts : BroadcastCall(b)
    \/ \E b \in Broadcasts : SendJsonDone(b)
    \/ \E b \in Broadcasts : PushDone(b)

Init ==
    /\ websocket = None
    /\ receive_task = None
    /\ watchdog_task = None
    /\ connection_established = FALSE
    /\ user_is_speaking = FALSE
    /\ audio_age = NoAudio
    /\ sockState = [s \in Socks |-> "unopened"]
    /\ inbox = [s \in Socks |-> <<>>]
    /\ recv = [s \in Socks |-> NoTask]
    /\ wd = [s \in Socks |-> NoTask]
    /\ caller = [c \in Callers |-> Idle]
    /\ acked = [s \in Socks |-> FALSE]
    /\ connected_calls = [s \in Socks |-> 0]
    /\ arrivals = <<>>
    /\ websocket_url = <<>>
    /\ NoManager
    /\ params = DefaultParams
    /\ env = [callers |-> {1}, sockets |-> Socks,
              frames |-> {FConnected, FStartOfTurn, FEndOfTurn},
              stubborn |-> {FALSE},
              send_raises |-> {FALSE}, callback_raises |-> {FALSE}]

\* ------------------------------------------------- _disconnect_websocket
\* The fields _disconnect_websocket reads and writes, as one record, so that
\* the straight-line code between two suspension points composes.
Session ==
    [websocket |-> websocket, receive_task |-> receive_task,
     watchdog_task |-> watchdog_task,
     connection_established |-> connection_established,
     user_is_speaking |-> user_is_speaking, audio_age |-> audio_age,
     sockState |-> sockState, recv |-> recv, wd |-> wd]

Install(v) ==
    /\ websocket' = v.websocket
    /\ receive_task' = v.receive_task
    /\ watchdog_task' = v.watchdog_task
    /\ connection_established' = v.connection_established
    /\ user_is_speaking' = v.user_is_speaking
    /\ audio_age' = v.audio_age
    /\ sockState' = v.sockState
    /\ recv' = v.recv
    /\ wd' = v.wd

\* Where a coroutine is after a run of straight-line code: the session as it
\* leaves it, the suspension point (or "idle" when the public call has
\* returned, with its result) and what it waits for.
Suspend(v, pc, t) == [v |-> v, pc |-> pc, t |-> t, ret |-> "none"]
Return(v, ret) == [v |-> v, pc |-> "idle", t |-> None, ret |-> ret]

\* A start() that lets the exception through.
start_failed_reraised(v) ==
    Return(v, "raise")

\* start(): except Exception: await self._call_error_callback(...); return False
start_failed(v) ==
    IF Handler("on_error") # NoCb THEN Suspend(v, "cb_error", None)
    ELSE Return(v, "False")

\* _disconnect_websocket returns: to stop(), or to the timeout branch of
\* _connect_websocket, which raises Exception("Connection timeout").
disconnect_return(v, op) ==
    IF op = "stop" THEN Return(v, "None") ELSE start_failed(v)

\* finally: reset the state and await on_disconnected.
disconnect_finally(v, op) ==
    LET w == [v EXCEPT !.websocket = None, !.user_is_speaking = FALSE,
                       !.audio_age = NoAudio] IN
    IF Handler("on_disconnected") # NoCb THEN Suspend(w, "cb_disconnected", None)
    ELSE disconnect_return(w, op)

\* await self._websocket.close(), with self._websocket read after the
\* CloseStream send; on None the AttributeError is caught and logged.
disconnect_close(v, op) ==
    IF v.websocket = None THEN disconnect_finally(v, op)
    ELSE Suspend([v EXCEPT !.sockState[v.websocket] =
                               IF @ = "OPEN" THEN "CLOSING" ELSE @],
                 "closing", v.websocket)

\* A teardown that closes the socket without the CloseStream frame.
disconnect_socket_unannounced(v, op) ==
    LET w == [v EXCEPT !.connection_established = FALSE] IN
    IF w.websocket = None THEN disconnect_finally(w, op)
    ELSE disconnect_close(w, op)

\* self._connection_established.clear(); if self._websocket: CloseStream
\* (sent only on an OPEN socket) and close.
disconnect_socket(v, op) ==
    LET w == [v EXCEPT !.connection_established = FALSE] IN
    IF w.websocket = None THEN disconnect_finally(w, op)
    ELSE IF IsOpen(w.websocket, w.sockState)
    THEN Suspend(w, "send_close", w.websocket)
    ELSE disconnect_close(w, op)

\* if self._watchdog_task and not done: cancel, wait_for(task, 2.0).
disconnect_watchdog(v, op) ==
    IF v.watchdog_task # None /\ v.wd[v.watchdog_task].pc # "done"
    THEN Suspend([v EXCEPT !.wd[v.watchdog_task].cancel = TRUE],
                 "wait_wd", v.watchdog_task)
    ELSE disconnect_socket(v, op)

\* A teardown that leaves the receive loop alone.
disconnect_receive_skipped(v, op) ==
    disconnect_watchdog(v, op)

\* if self._receive_task and not done: cancel, wait_for(task, 2.0).
disconnect_receive(v, op) ==
    IF v.receive_task # None /\ v.recv[v.receive_task].pc # "done"
    THEN Suspend([v EXCEPT !.recv[v.receive_task].cancel = TRUE],
                 "wait_recv", v.receive_task)
    ELSE disconnect_watchdog(v, op)

Count(n) == IF n < 2 THEN n + 1 ELSE n

\* Caller record r goes on from plan p inside call op; once the call has
\* returned only its result and its on_disconnected count are kept.
Proceed(r, op, p) ==
    IF p.pc = "idle"
    THEN [Idle EXCEPT !.op = op, !.ret = p.ret, !.disconnects = r.disconnects,
                      !.before = r.before]
    ELSE [r EXCEPT !.op = op, !.pc = p.pc, !.t = p.t, !.ack = FALSE,
                   !.errors = IF p.pc = "cb_error" THEN Count(@) ELSE @,
                   !.disconnects = IF p.pc = "cb_disconnected" THEN Count(@) ELSE @]

Resume(c, op, p) ==
    /\ Install(p.v)
    /\ caller' = [caller EXCEPT ![c] = Proceed(@, op, p)]

\* A new public call of caller c.
Call(c, op, p) ==
    /\ Install(p.v)
    /\ caller' = [caller EXCEPT ![c] =
           Proceed([Idle EXCEPT !.before = IF op = "stop" /\ caller[c].op = "stop"
                                           THEN caller[c].disconnects ELSE 0],
                   op, p)]

At(c, pc) == caller[c].pc = pc
Manager == <<active_connections, client, broadcast>>
Settings == <<websocket_url, params, env, Manager>>
NetVars == <<inbox, arrivals>>
History == <<acked, connected_calls>>

\* Frames no receive loop will take are of no further account.
Drained(rv) == [s \in Socks |-> IF rv[s].pc = "done" THEN <<>> ELSE inbox[s]]

Forget(q, rv) == SelectSeq(q, LAMBDA x : rv[x.sock].pc # "done")

\* The arrivals once the loop of socket s has taken its oldest frame; with
\* mark, the frames that arrived before it are overtaken by its callback.
RECURSIVE Take(_, _, _)
Take(q, s, mark) ==
    IF q = <<>> THEN <<>>
    ELSE IF Head(q).sock = s THEN Tail(q)
    ELSE <<[Head(q) EXCEPT !.overtaken = @ \/ mark]>> \o Take(Tail(q), s, mark)

\* The oldest buffered frame of socket s.
Oldest(q, s) ==
    q[CHOOSE i \in 1..Len(q) : q[i].sock = s /\ \A j \in 1..(i - 1) : q[j].sock # s]

\* ------------------------------------------------------------------ start()
\* A start() that connects whatever the state of the socket.
StartCall_anew(c) ==
    /\ At(c, "idle")
    /\ Call(c, "start",
            Suspend([Session EXCEPT !.connection_established = FALSE,
                                    !.user_is_speaking = FALSE],
                    "connecting", None))
    /\ websocket_url' = build_websocket_url
    /\ UNCHANGED <<NetVars, History, params, env, Manager>>

\* start() up to the first suspension: the URL is built, and
\* _connect_websocket returns at once on an open socket, else clears the
\* event and the turn flag and awaits websocket_connect.
StartCall(c) ==
    /\ At(c, "idle")
    /\ IF IsOpen(websocket, sockState)
       THEN Call(c, "start", Return(Session, "True"))
       ELSE Call(c, "start",
                   Suspend([Session EXCEPT !.connection_established = FALSE,
                                           !.user_is_speaking = FALSE],
                           "connecting", None))
    /\ websocket_url' = build_websocket_url
    /\ UNCHANGED <<NetVars, History, params, env, Manager>>

Unopened == {s \in env.sockets : sockState[s] = "unopened"}

\* A session that opens a socket whether or not start() asked for one.
ConnectOpened_unasked(c) ==
    /\ Unopened # {}
    /\ LET s == CHOOSE x \in Unopened : \A y \in Unopened : x <= y IN
       /\ websocket' = s
       /\ sockState' = [sockState EXCEPT ![s] = "OPEN"]
       /\ recv' = [recv EXCEPT ![s] = NewTask]
       /\ wd' = [wd EXCEPT ![s] = NewTask]
       /\ receive_task' = s
       /\ watchdog_task' = s
       /\ caller' = [caller EXCEPT ![c].pc = "await_ack", ![c].t = s,
                                   ![c].ack = connection_established,
                                   ![c].sock = s]
    /\ UNCHANGED <<connection_established, user_is_speaking, audio_age,
                   NetVars, History, Settings>>

\* websocket_connect returned a socket: both tasks are created and the caller
\* waits for the event (at most 10 s).
ConnectOpened(c) ==
    /\ At(c, "connecting") /\ Unopened # {}
    /\ LET s == CHOOSE x \in Unopened : \A y \in Unopened : x <= y IN
       /\ websocket' = s
       /\ sockState' = [sockState EXCEPT ![s] = "OPEN"]
       /\ recv' = [recv EXCEPT ![s] = NewTask]
       /\ wd' = [wd EXCEPT ![s] = NewTask]
       /\ receive_task' = s
       /\ watchdog_task' = s
       /\ caller' = [caller EXCEPT ![c].pc = "await_ack", ![c].t = s,
                                   ![c].ack = connection_established,
                                   ![c].sock = s]
    /\ UNCHANGED <<connection_established, user_is_speaking, audio_age,
                   NetVars, History, Settings>>

\* websocket_connect raised: self._websocket = None; raise.
ConnectFailed(c) ==
    /\ At(c, "connecting")
    /\ Resume(c, "start", start_failed([Session EXCEPT !.websocket = None]))
    /\ UNCHANGED <<NetVars, History, Settings>>

\* A connect that does not wait for the event.
AckReceived_unsignalled(c) ==
    /\ At(c, "await_ack")
    /\ IF Handler("on_connected") # NoCb
       THEN /\ Resume(c, "start", Suspend(Session, "cb_connected", caller[c].t))
            /\ connected_calls' = [connected_calls EXCEPT ![caller[c].sock] = Count(@)]
       ELSE /\ Resume(c, "start", Return(Session, "True"))
            /\ UNCHANGED connected_calls
    /\ UNCHANGED <<NetVars, acked, Settings>>

\* The event was set while this caller waited: await on_connected.
AckReceived(c) ==
    /\ At(c, "await_ack") /\ caller[c].ack
    /\ IF Handler("on_connected") # NoCb
       THEN /\ Resume(c, "start", Suspend(Session, "cb_connected", caller[c].t))
            /\ connected_calls' = [connected_calls EXCEPT ![caller[c].sock] = Count(@)]
       ELSE /\ Resume(c, "start", Return(Session, "True"))
            /\ UNCHANGED connected_calls
    /\ UNCHANGED <<NetVars, acked, Settings>>

\* 10 s passed without the event: await self._disconnect_websocket().
AckTimeout(c) ==
    /\ At(c, "await_ack") /\ ~caller[c].ack
    /\ Install(disconnect_receive(Session, "start").v)
    /\ caller' = [caller EXCEPT ![c] =
           Proceed([@ EXCEPT !.timedout = TRUE], "start",
                   disconnect_receive(Session, "start"))]
    /\ UNCHANGED <<NetVars, History, Settings>>

\* ------------------------------------------------------------------- stop()
StopCall(c) ==
    /\ At(c, "idle")
    /\ Call(c, "stop", disconnect_receive(Session, "stop"))
    /\ UNCHANGED <<NetVars, History, Settings>>

\* wait_for(self._receive_task) returns once the task is done (a timeout
\* cancels the task again and still waits for it): self._receive_task = None.
WaitReceiveDone(c) ==
    /\ At(c, "wait_recv") /\ recv[caller[c].t].pc = "done"
    /\ Resume(c, caller[c].op,
              disconnect_watchdog([Session EXCEPT !.receive_task = None],
                                  caller[c].op))
    /\ UNCHANGED <<NetVars, History, Settings>>

WaitWatchdogDone(c) ==
    /\ At(c, "wait_wd") /\ wd[caller[c].t].pc = "done"
    /\ Resume(c, caller[c].op,
              disconnect_socket([Session EXCEPT !.watchdog_task = None],
                                caller[c].op))
    /\ UNCHANGED <<NetVars, History, Settings>>

\* The CloseStream send returned or raised (the error is only logged).
SendCloseDone(c) ==
    /\ At(c, "send_close")
    /\ Resume(c, caller[c].op, disconnect_close(Session, caller[c].op))
    /\ UNCHANGED <<NetVars, History, Settings>>

\* close() returned or raised: the socket is closed either way.
CloseDone(c) ==
    /\ At(c, "closing")
    /\ Resume(c, caller[c].op,
              disconnect_finally([Session EXCEPT !.sockState[caller[c].t] = "CLOSED"],
                                 caller[c].op))
    /\ UNCHANGED <<NetVars, History, Settings>>

\* ------------------------------------------------------------- send_audio()
SendAudioCall(c) ==
    /\ At(c, "idle")
    /\ IF ~IsOpen(websocket, sockState)
       THEN Call(c, "send_audio", Return(Session, "None"))
       ELSE Call(c, "send_audio",
                   Suspend([Session EXCEPT !.audio_age = Fresh], "sending", websocket))
    /\ UNCHANGED <<NetVars, History, Settings>>

\* websocket.send(audio) returned, or raised and the error callback is awaited.
SendAudioDone(c) ==
    /\ At(c, "sending")
    /\ \/ Resume(c, "send_audio", Return(Session, "None"))
       \/ Resume(c, "send_audio",
                 IF Handler("on_error") # NoCb THEN Suspend(Session, "cb_error", None)
                 ELSE Return(Session, "None"))
    /\ UNCHANGED <<NetVars, History, Settings>>

\* ------------------------------------------- callbacks awaited by a caller
\* The callback returned or raised (the exception is caught and logged).
CallbackReturn(c) ==
    /\ caller[c].pc \in {"cb_connected", "cb_disconnected", "cb_error"}
    /\ Resume(c, caller[c].op,
              CASE At(c, "cb_connected") -> Return(Session, "True")
                [] At(c, "cb_disconnected") -> disconnect_return(Session, caller[c].op)
                [] At(c, "cb_error") ->
                     Return(Session, IF caller[c].op = "start" THEN "False" ELSE "None"))
    /\ UNCHANGED <<NetVars, History, Settings>>

\* --------------------------------------------------------- _receive_messages
\* except Exception in _receive_messages: await the error callback, then end.
receive_failed(s) ==
    IF Handler("on_error") # NoCb
    THEN {[recv[s] EXCEPT !.pc = "cb", !.cb = "on_error", !.last = TRUE,
                          !.stubborn = b] : b \in env.stubborn}
    ELSE {DoneTask}

IsTurnEvent(f, event) ==
    ~f.bin /\ f.json = "object" /\ f.type = "TurnInfo" /\ f.event = event

InTurn(f, turn) ==
    IF IsTurnEvent(f, "StartOfTurn") THEN TRUE
    ELSE IF IsTurnEvent(f, "EndOfTurn") THEN FALSE
    ELSE turn

IsConnected(f) == ~f.bin /\ f.json = "object" /\ f.type = "Connected"

\* A text frame that is not JSON, or JSON that is no object with a "type".
Malformed(f) == ~f.bin /\ (f.json # "object" \/ f.type = "")

\* Why the loop ignores frame f: it is binary, malformed, of an unknown type,
\* or a TurnInfo with an unknown event; "" when it does not ignore it.
Skip(f) ==
    IF f.bin THEN "binary"
    ELSE IF Malformed(f) THEN "malformed"
    ELSE IF f.type \notin {"Connected", "Error", "TurnInfo"} THEN "type"
    ELSE IF /\ f.type = "TurnInfo"
            /\ f.event \notin {"StartOfTurn", "TurnResumed", "EndOfTurn",
                                "EagerEndOfTurn", "Update"} THEN "event"
    ELSE ""

\* The task after handling frame f with effect e.
receive_next(s, f, e) ==
    IF e.raises THEN receive_failed(s)
    ELSE IF e.cb # NoCb
    THEN {[recv[s] EXCEPT !.pc = "cb", !.cb = e.cb, !.stubborn = b,
                          !.turn = InTurn(f, @),
                          !.skip = Skip(f)] : b \in env.stubborn}
    ELSE {[recv[s] EXCEPT !.turn = InTurn(f, @), !.skip = Skip(f)]}

\* One iteration of the async-for: the next frame of the loop's own socket
\* is taken and handled up to the next suspension.
ReceiveFrame(s) ==
    /\ recv[s].pc = "run" /\ ~recv[s].cancel /\ inbox[s] # <<>>
    /\ LET e == receive_one(Head(inbox[s]), user_is_speaking) IN
       /\ user_is_speaking' = e.speaking
       /\ connection_established' = (connection_established \/ e.set)
       /\ caller' = [c \in Callers |->
             IF e.set /\ caller[c].pc = "await_ack"
             THEN [caller[c] EXCEPT !.ack = TRUE] ELSE caller[c]]
       /\ \E t \in receive_next(s, Head(inbox[s]), e) : recv' = [recv EXCEPT ![s] = t]
    /\ inbox' = [inbox EXCEPT ![s] = IF recv'[s].pc = "done" THEN <<>> ELSE Tail(@)]
    /\ arrivals' = Forget(Take(arrivals, s, recv'[s].pc = "cb" /\ ~recv'[s].last), recv')
    /\ acked' = [acked EXCEPT ![s] = @ \/ IsConnected(Head(inbox[s]))]
    /\ UNCHANGED <<websocket, receive_task, watchdog_task, audio_age, sockState,
                   wd, connected_calls, Settings>>

\* The socket is closed and drained: the async-for ends (normal closure) or
\* raises ConnectionClosedError into the outer except.
ReceiveClosed(s) ==
    /\ recv[s].pc = "run" /\ ~recv[s].cancel
    /\ inbox[s] = <<>> /\ sockState[s] = "CLOSED"
    /\ \E t \in {DoneTask} \cup receive_failed(s) : recv' = [recv EXCEPT ![s] = t]
    /\ inbox' = Drained(recv')
    /\ arrivals' = Forget(arrivals, recv')
    /\ UNCHANGED <<websocket, receive_task, watchdog_task, connection_established,
                   user_is_speaking, audio_age, sockState, wd, caller, History, Settings>>

\* A wrapper that lets the callback's exception through: it ends the loop.
call_callback_unguarded(task, raised) ==
    IF task.last \/ raised THEN DoneTask
    ELSE [task EXCEPT !.pc = "run", !.cb = NoCb]

\* The task once the callback it awaited has returned or raised an
\* Exception: try: await callback() except Exception: logger.error(...).
call_callback(task, raised) ==
    IF task.last THEN DoneTask
    ELSE [task EXCEPT !.pc = "run", !.cb = NoCb, !.raised = @ \/ raised]

\* The awaited callback returned or raised an Exception.
ReceiveCallbackReturn(s) ==
    /\ recv[s].pc = "cb" /\ ~recv[s].cancel /\ ~recv[s].stubborn
    /\ \E raised \in env.callback_raises :
          recv' = [recv EXCEPT ![s] = call_callback(@, raised)]
    /\ inbox' = Drained(recv')
    /\ arrivals' = Forget(arrivals, recv')
    /\ UNCHANGED <<websocket, receive_task, watchdog_task, connection_established,
                   user_is_speaking, audio_age, sockState, wd, caller, History, Settings>>

\* CancelledError is raised at the task's suspension point and ends the task
\* (except asyncio.CancelledError), unless the callback it is in suppresses it.
ReceiveCancelled(s) ==
    /\ recv[s].pc \in {"run", "cb"} /\ recv[s].cancel /\ ~recv[s].stubborn
    /\ recv' = [recv EXCEPT ![s] = DoneTask]
    /\ inbox' = Drained(recv')
    /\ arrivals' = Forget(arrivals, recv')
    /\ UNCHANGED <<websocket, receive_task, watchdog_task, connection_established,
                   user_is_speaking, audio_age, sockState, wd, caller, History, Settings>>

\* ------------------------------------------ stop() called from a callback
\* A callback awaited by the receive loop may call stop(): the teardown then
\* runs on the receive task itself (pc "stop"), which is suspended at
\* recv[s].at, waiting for recv[s].t.
\* The receive task goes on from plan p of that stop(); when stop() has
\* returned, the callback returns too.
Nested(s, p) ==
    /\ Install([p.v EXCEPT !.recv[s] =
                   IF p.pc = "idle" THEN call_callback(@, FALSE)
                   ELSE [@ EXCEPT !.pc = "stop", !.at = p.pc, !.t = p.t]])
    /\ inbox' = Drained(recv')
    /\ arrivals' = Forget(arrivals, recv')
    /\ UNCHANGED <<caller, History, Settings>>

\* A wait that ends only when the task it waits for is done.
wait_for_done(s, t) == recv[t].pc = "done"

\* await asyncio.wait_for(task, timeout=2.0) in task s: it returns once the
\* task is done; on the task itself, which has just been cancelled, the
\* CancelledError is raised at this suspension point and is caught.
wait_for(s, t) == t = s \/ recv[t].pc = "done"

CallbackStop(s) ==
    /\ recv[s].pc = "cb" /\ ~recv[s].cancel /\ ~recv[s].stubborn
    /\ Nested(s, disconnect_receive(Session, "stop"))

StopWaitReceive(s) ==
    /\ recv[s].pc = "stop" /\ recv[s].at = "wait_recv"
    /\ wait_for(s, recv[s].t)
    /\ Nested(s, disconnect_watchdog(
                    [Session EXCEPT !.receive_task = None,
                                    !.recv[s].cancel =
                                        IF recv[s].t = s THEN FALSE ELSE @],
                    "stop"))

StopWaitWatchdog(s) ==
    /\ recv[s].pc = "stop" /\ recv[s].at = "wait_wd"
    /\ wd[recv[s].t].pc = "done"
    /\ Nested(s, disconnect_socket([Session EXCEPT !.watchdog_task = None], "stop"))

StopSendCloseDone(s) ==
    /\ recv[s].pc = "stop" /\ recv[s].at = "send_close" /\ ~recv[s].cancel
    /\ Nested(s, disconnect_close(Session, "stop"))

StopCloseDone(s) ==
    /\ recv[s].pc = "stop" /\ recv[s].at = "closing" /\ ~recv[s].cancel
    /\ Nested(s, disconnect_finally(
                    [Session EXCEPT !.sockState[recv[s].t] = "CLOSED"], "stop"))

\* on_disconnected returned: stop() returns, or the CancelledError that
\* reached the teardown goes on to the receive loop, which ends.
StopCallbackReturn(s) ==
    /\ recv[s].pc = "stop" /\ recv[s].at = "cb_disconnected"
    /\ IF recv[s].cancel
       THEN Nested(s, Return([Session EXCEPT !.recv[s].last = TRUE], "None"))
       ELSE Nested(s, disconnect_return(Session, "stop"))

\* A caller whose wait_for(self._receive_task, 2.0) timed out cancels the
\* task once more.  CancelledError is no Exception: raised in the CloseStream
\* send or in close() it is caught by nothing before the finally clause, and
\* it goes on after the on_disconnected callback.
StopCancelled(s) ==
    /\ recv[s].pc = "stop" /\ recv[s].at \in {"send_close", "closing"}
    /\ \/ recv[s].cancel
       \/ \E c \in Callers : caller[c].pc = "wait_recv" /\ caller[c].t = s
    /\ Nested(s, disconnect_finally([Session EXCEPT !.recv[s].cancel = TRUE], "stop"))

\* --------------------------------------------------------- _watchdog_handler
\* A watchdog that does not look at the turn flag.
watchdog_handler_any_time(s) ==
    IF ~IsOpen(websocket, sockState) THEN DoneTask
    ELSE IF audio_age # NoAudio /\ audio_age = Stale
    THEN [wd[s] EXCEPT !.pc = "send", !.raised = FALSE]
    ELSE [wd[s] EXCEPT !.raised = FALSE]

\* One pass of the while loop, from the sleep to the next suspension.  The
\* loop reads self._websocket, whichever socket that is now, and sends only
\* when the timestamp is set.
watchdog_handler(s) ==
    IF ~IsOpen(websocket, sockState) THEN DoneTask
    ELSE IF user_is_speaking /\ audio_age # NoAudio /\ audio_age = Stale
    THEN [wd[s] EXCEPT !.pc = "send", !.raised = FALSE]
    ELSE [wd[s] EXCEPT !.raised = FALSE]

WatchdogTick(s) ==
    /\ wd[s].pc = "run" /\ ~wd[s].cancel
    /\ wd' = [wd EXCEPT ![s] = watchdog_handler(s)]
    /\ UNCHANGED <<websocket, receive_task, watchdog_task, connection_established,
                   user_is_speaking, audio_age, sockState, NetVars, recv, caller, History, Settings>>

\* _send_silence after its send returned, or raised: except Exception:
\* logger.debug(...).
send_silence(task, raised) ==
    [task EXCEPT !.pc = "run", !.raised = raised]

\* The silence send returned or raised:
\* self._last_audio_time = time.monotonic(), then sleep.
WatchdogSent(s) ==
    /\ wd[s].pc = "send" /\ ~wd[s].cancel
    /\ \E raised \in env.send_raises :
          wd' = [wd EXCEPT ![s] = send_silence(@, raised)]
    /\ audio_age' = Fresh
    /\ UNCHANGED <<websocket, receive_task, watchdog_task, connection_established,
                   user_is_speaking, sockState, NetVars, recv, caller, History, Settings>>

WatchdogCancelled(s) ==
    /\ wd[s].pc \in {"run", "send"} /\ wd[s].cancel
    /\ wd' = [wd EXCEPT ![s] = DoneTask]
    /\ UNCHANGED <<websocket, receive_task, watchdog_task, connection_established,
                   user_is_speaking, audio_age, sockState, NetVars, recv, caller, History, Settings>>

\* -------------------------------------------------------------- environment
\* The server sends a frame on an open socket.
ServerSend(s, f) ==
    /\ sockState[s] = "OPEN" /\ recv[s].pc # "done"
    /\ Len(inbox[s]) < MaxInbox /\ f \in env.frames
    /\ inbox' = [inbox EXCEPT ![s] = Append(@, f)]
    /\ arrivals' = Append(arrivals, [sock |-> s, overtaken |-> FALSE])
    /\ UNCHANGED <<websocket, receive_task, watchdog_task, connection_established,
                   user_is_speaking, audio_age, sockState, recv, wd, caller, History, Settings>>

\* The server closes the socket, or the connection is lost.
ServerClose(s) ==
    /\ sockState[s] = "OPEN"
    /\ sockState' = [sockState EXCEPT ![s] = "CLOSED"]
    /\ UNCHANGED <<websocket, receive_task, watchdog_task, connection_established,
                   user_is_speaking, audio_age, NetVars, recv, wd, caller, History, Settings>>

\* More than 0.5 s have passed since the last audio was sent.
Tick ==
    /\ audio_age = Fresh
    /\ audio_age' = Stale
    /\ UNCHANGED <<websocket, receive_task, watchdog_task, connection_established,
                   user_is_speaking, sockState, NetVars, recv, wd, caller, History, Settings>>

Next ==
    \/ \E c \in env.callers : StartCall(c)
    \/ \E c \in env.callers : ConnectOpened(c)
    \/ \E c \in env.callers : ConnectFailed(c)
    \/ \E c \in env.callers : AckReceived(c)
    \/ \E c \in env.callers : AckTimeout(c)
    \/ \E c \in env.callers : StopCall(c)
    \/ \E c \in env.callers : WaitReceiveDone(c)
    \/ \E c \in env.callers : WaitWatchdogDone(c)
    \/ \E c \in env.callers : SendCloseDone(c)
    \/ \E c \in env.callers : CloseDone(c)
    \/ \E c \in env.callers : SendAudioCall(c)
    \/ \E c \in env.callers : SendAudioDone(c)
    \/ \E c \in env.callers : CallbackReturn(c)
    \/ \E s \in Socks : ReceiveFrame(s)
    \/ \E s \in Socks : ReceiveClosed(s)
    \/ \E s \in Socks : ReceiveCallbackReturn(s)
    \/ \E s \in Socks : ReceiveCancelled(s)
    \/ \E s \in Socks : WatchdogTick(s)
    \/ \E s \in Socks : WatchdogSent(s)
    \/ \E s \in Socks : WatchdogCancelled(s)
    \/ \E s \in Socks, f \in env.frames : ServerSend(s, f)
    \/ \E s \in Socks : ServerClose(s)
    \/ Tick

Spec == Init /\ [][Next]_vars

\* One connection, with every kind of inbound frame.
InitFrames ==
    /\ websocket = None
    /\ receive_task = None
    /\ watchdog_task = None
    /\ connection_established = FALSE
    /\ user_is_speaking = FALSE
    /\ audio_age = NoAudio
    /\ sockState = [s \in Socks |-> "unopened"]
    /\ inbox = [s \in Socks |-> <<>>]
    /\ recv = [s \in Socks |-> NoTask]
    /\ wd = [s \in Socks |-> NoTask]
    /\ caller = [c \in Callers |-> Idle]
    /\ acked = [s \in Socks |-> FALSE]
    /\ connected_calls = [s \in Socks |-> 0]
    /\ arrivals = <<>>
    /\ websocket_url = <<>>
    /\ NoManager
    /\ params = DefaultParams
    /\ env = [callers |-> {1}, sockets |-> {1}, frames |-> Frames,
              stubborn |-> {FALSE},
              send_raises |-> {FALSE}, callback_raises |-> {FALSE}]

SpecFrames == InitFrames /\ [][Next]_vars

\* One connection, with callbacks that may suppress cancellation for ever,
\* run by an event loop that runs every task that is ready.
InitLoop ==
    /\ websocket = None
    /\ receive_task = None
    /\ watchdog_task = None
    /\ connection_established = FALSE
    /\ user_is_speaking = FALSE
    /\ audio_age = NoAudio
    /\ sockState = [s \in Socks |-> "unopened"]
    /\ inbox = [s \in Socks |-> <<>>]
    /\ recv = [s \in Socks |-> NoTask]
    /\ wd = [s \in Socks |-> NoTask]
    /\ caller = [c \in Callers |-> Idle]
    /\ acked = [s \in Socks |-> FALSE]
    /\ connected_calls = [s \in Socks |-> 0]
    /\ arrivals = <<>>
    /\ websocket_url = <<>>
    /\ NoManager
    /\ params = DefaultParams
    /\ env = [callers |-> {1}, sockets |-> {1},
              frames |-> {FConnected, FStartOfTurn},
              stubborn |-> {FALSE, TRUE},
              send_raises |-> {FALSE}, callback_raises |-> {FALSE}]

\* A suspended call goes on once what it awaits has completed.
CallerStep(c) ==
    \/ ConnectOpened(c) \/ ConnectFailed(c) \/ AckReceived(c) \/ AckTimeout(c)
    \/ WaitReceiveDone(c) \/ WaitWatchdogDone(c) \/ SendCloseDone(c)
    \/ CloseDone(c) \/ SendAudioDone(c) \/ CallbackReturn(c)

ReceiveStep(s) ==
    \/ ReceiveFrame(s) \/ ReceiveClosed(s) \/ ReceiveCallbackReturn(s)
    \/ ReceiveCancelled(s)

WatchdogStep(s) ==
    WatchdogTick(s) \/ WatchdogSent(s) \/ WatchdogCancelled(s)

EventLoop ==
    /\ \A c \in Callers : WF_vars(CallerStep(c))
    /\ \A s \in Socks : WF_vars(ReceiveStep(s)) /\ WF_vars(WatchdogStep(s))
    /\ WF_vars(Tick)

SpecLoop == InitLoop /\ [][Next]_vars /\ EventLoop

\* The state after construction, for configuration p and environment e.
InitWith(p, e) ==
    /\ websocket = None
    /\ receive_task = None
    /\ watchdog_task = None
    /\ connection_established = FALSE
    /\ user_is_speaking = FALSE
    /\ audio_age = NoAudio
    /\ sockState = [s \in Socks |-> "unopened"]
    /\ inbox = [s \in Socks |-> <<>>]
    /\ recv = [s \in Socks |-> NoTask]
    /\ wd = [s \in Socks |-> NoTask]
    /\ caller = [c \in Callers |-> Idle]
    /\ acked = [s \in Socks |-> FALSE]
    /\ connected_calls = [s \in Socks |-> 0]
    /\ arrivals = <<>>
    /\ websocket_url = <<>>
    /\ NoManager
    /\ params = p
    /\ env = e

\* One connection of a session with min_confidence = 0.7.
InitFilter ==
    InitWith([DefaultParams EXCEPT !.min_confidence = 70],
             [callers |-> {1}, sockets |-> {1},
              frames |-> {FConnected, FStartOfTurn, FEndOfTurn, FEndHigh,
                          FEndLow, FEndEven, FEndThirds},
              stubborn |-> {FALSE},
              send_raises |-> {FALSE}, callback_raises |-> {FALSE}])

SpecFilter == InitFilter /\ [][Next]_vars

\* Two tasks calling the session at once, with one socket to be had.
InitCallers ==
    InitWith(DefaultParams,
             [callers |-> Callers, sockets |-> {1},
              frames |-> {FConnected, FStartOfTurn},
              stubborn |-> {FALSE},
              send_raises |-> {FALSE}, callback_raises |-> {FALSE}])

SpecCallers == InitCallers /\ [][Next]_vars

\* One connection on which the server may send its fatal error message, with
\* callbacks that may suppress cancellation, run by the event loop.
InitErrors ==
    InitWith(DefaultParams,
             [callers |-> {1}, sockets |-> {1},
              frames |-> {FConnected, FStartOfTurn, FError},
              stubborn |-> {FALSE, TRUE},
              send_raises |-> {FALSE}, callback_raises |-> {FALSE}])

SpecErrors == InitErrors /\ [][Next]_vars /\ EventLoop

\* One connection on which a send of silence may raise.
InitSends ==
    InitWith(DefaultParams,
             [callers |-> {1}, sockets |-> {1},
              frames |-> {FConnected, FStartOfTurn},
              stubborn |-> {FALSE},
              send_raises |-> {FALSE, TRUE}, callback_raises |-> {FALSE}])

SpecSends == InitSends /\ [][Next]_vars

\* Configurations: the defaults, each optional parameter set (also to zero
\* and to False), keyterms and tags of one and two elements with characters
\* that need escaping, and an encoding Flux does not support.
Mulaw == <<"m", "u", "l", "a", "w">>
Launch == <<"l", "a", "u", "n", "c", "h">>
Quarterly == <<"q", "u", "a", "r", "t", "e", "r", "l", "y">>
Phrase == <<"q", "1", " ", "a", ",", "b", "&", "c", "=", "d">>

Configs ==
    {DefaultParams,
     [DefaultParams EXCEPT !.sample_rate = 8000],
     [DefaultParams EXCEPT !.encoding = Mulaw],
     [DefaultParams EXCEPT !.eager_eot_threshold = <<5>>],
     [DefaultParams EXCEPT !.eot_threshold = <<0>>],
     [DefaultParams EXCEPT !.eot_timeout_ms = <<5000>>],
     [DefaultParams EXCEPT !.eot_timeout_ms = <<0>>],
     [DefaultParams EXCEPT !.mip_opt_out = <<FALSE>>],
     [DefaultParams EXCEPT !.mip_opt_out = <<TRUE>>, !.eot_threshold = <<7>>],
     [DefaultParams EXCEPT !.keyterm = <<Launch, Quarterly>>],
     [DefaultParams EXCEPT !.keyterm = <<Phrase>>, !.tag = <<Launch>>],
     [DefaultParams EXCEPT !.tag = <<Phrase, Launch>>, !.min_confidence = 70],
     [DefaultParams EXCEPT !.eager_eot_threshold = <<3>>, !.eot_threshold = <<10>>,
                           !.eot_timeout_ms = <<5000>>, !.mip_opt_out = <<TRUE>>,
                           !.keyterm = <<Quarterly, Phrase>>, !.tag = <<Quarterly>>]}

\* One connection of a session constructed with any of the configurations.
InitConfig ==
    \E p \in Configs :
        InitWith(p, [callers |-> {1}, sockets |-> {1},
                     frames |-> {FConnected, FStartOfTurn},
                     stubborn |-> {FALSE},
                     send_raises |-> {FALSE}, callback_raises |-> {FALSE}])

SpecConfig == InitConfig /\ [][Next]_vars

\* One connection of a session whose callbacks may raise.
InitRaises ==
    InitWith(DefaultParams,
             [callers |-> {1}, sockets |-> {1},
              frames |-> {FConnected, FStartOfTurn, FEndOfTurn},
              stubborn |-> {FALSE},
              send_raises |-> {FALSE}, callback_raises |-> {FALSE, TRUE}])

SpecRaises == InitRaises /\ [][Next]_vars

\* One connection of a session with none, some or all of the callbacks set.
InitHandlers ==
    \E h \in {{}, {"on_connected", "on_end_of_turn"},
               {"on_disconnected", "on_start_of_turn", "on_error"}, AllHandlers} :
        InitWith([DefaultParams EXCEPT !.handlers = h],
                 [callers |-> {1}, sockets |-> {1},
                  frames |-> {FConnected, FStartOfTurn, FUpdate, FEndOfTurn, FError},
                  stubborn |-> {FALSE},
                  send_raises |-> {FALSE}, callback_raises |-> {FALSE}])

SpecHandlers == InitHandlers /\ [][Next]_vars

\* One connection of a session with min_confidence = 0.7 on which the server
\* sends every TurnInfo event.
InitTurns ==
    InitWith([DefaultParams EXCEPT !.min_confidence = 70],
             [callers |-> {1}, sockets |-> {1},
              frames |-> {FConnected, FStartOfTurn, FTurnResumed, FUpdate,
                          FUpdateEmpty, FEagerLow, FEndOfTurn},
              stubborn |-> {FALSE},
              send_raises |-> {FALSE}, callback_raises |-> {FALSE}])

SpecTurns == InitTurns /\ [][Next]_vars

\* One connection of a session with min_confidence = 0.7 on which every
\* EndOfTurn is below the threshold or carries no confidence to average.
InitEnds ==
    InitWith([DefaultParams EXCEPT !.min_confidence = 70],
             [callers |-> {1}, sockets |-> {1},
              frames |-> {FConnected, FStartOfTurn, FEndOfTurn, FEndLow,
                          FEndNoNumbers, FEndNoWords},
              stubborn |-> {FALSE},
              send_raises |-> {FALSE}, callback_raises |-> {FALSE}])

SpecEnds == InitEnds /\ [][Next]_vars

\* One connection on which the server also sends frames the protocol does
\* not have.
InitIgnored ==
    InitWith(DefaultParams,
             [callers |-> {1}, sockets |-> {1},
              frames |-> {FConnected, FStartOfTurn, FBinary, FUnknownType,
                          FUnknownEvent, FNoEvent},
              stubborn |-> {FALSE},
              send_raises |-> {FALSE}, callback_raises |-> {FALSE}])

SpecIgnored == InitIgnored /\ [][Next]_vars

\* One connection with a minimum confidence, on which the server sends
\* TurnInfo payloads of an unexpected shape.
InitShapes ==
    InitWith([DefaultParams EXCEPT !.min_confidence = 70],
             [callers |-> {1}, sockets |-> {1},
              frames |-> {FConnected, FStartOfTurn, FEndOfTurn, FEagerNull,
                          FEndStrings},
              stubborn |-> {FALSE},
              send_raises |-> {FALSE}, callback_raises |-> {FALSE}])

SpecShapes == InitShapes /\ [][Next]_vars

\* A session whose callbacks may call stop(), and a server that reports
\* fatal errors.
NextStops ==
    \/ Next
    \/ \E s \in Socks : CallbackStop(s)
    \/ \E s \in Socks : StopWaitReceive(s)
    \/ \E s \in Socks : StopWaitWatchdog(s)
    \/ \E s \in Socks : StopSendCloseDone(s)
    \/ \E s \in Socks : StopCloseDone(s)
    \/ \E s \in Socks : StopCallbackReturn(s)
    \/ \E s \in Socks : StopCancelled(s)

StopStep(s) ==
    \/ StopWaitReceive(s) \/ StopWaitWatchdog(s) \/ StopSendCloseDone(s)
    \/ StopCloseDone(s) \/ StopCallbackReturn(s)

InitStops ==
    InitWith(DefaultParams,
             [callers |-> {1}, sockets |-> {1},
              frames |-> {FConnected, FStartOfTurn, FError},
              stubborn |-> {FALSE},
              send_raises |-> {FALSE}, callback_raises |-> {FALSE}])

SpecStops ==
    /\ InitStops /\ [][NextStops]_vars
    /\ EventLoop /\ \A s \in Socks : WF_vars(StopStep(s))

\* The ConnectionManager alone, beside a session that is never started.
InitManager ==
    InitWith(DefaultParams,
             [callers |-> {1}, sockets |-> {1}, frames |-> {FConnected},
              stubborn |-> {FALSE},
              send_raises |-> {FALSE}, callback_raises |-> {FALSE}])

SpecManager == InitManager /\ [][NextManager]_vars

\* ===================================================================== claims
\* The step is receive loop s taking the frame at the head of its inbox.
Handles(s) ==
    /\ recv[s].pc = "run" /\ ~recv[s].cancel /\ inbox[s] # <<>>
    /\ Len(inbox'[s]) < Len(inbox[s])

\* The step is caller c returning from a public call.
Returns(c, op) ==
    caller'[c] # caller[c] /\ caller'[c].op = op /\ caller'[c].pc = "idle"

Running(task) == task.pc \notin {"none", "done"}

\* C1: a receive loop that has handled StartOfTurn finds the turn flag still
\* true when it handles the Updates and the EndOfTurn that follow; handling
\* StartOfTurn leaves the flag true and handling EndOfTurn leaves it false.
C1_FlagTrueWithinTurn ==
    [][\A s \in Socks : Handles(s) =>
          LET f == Head(inbox[s]) IN
          /\ (recv[s].turn /\ (IsTurnEvent(f, "Update") \/ IsTurnEvent(f, "EndOfTurn"))
                 => user_is_speaking)
          /\ (IsTurnEvent(f, "StartOfTurn") => user_is_speaking')
          /\ (IsTurnEvent(f, "EndOfTurn") => ~user_is_speaking')]_vars

\* C2: the turn flag is false whenever the connection is not open.
C2_FlagFalseUnlessOpen ==
    ~IsOpen(websocket, sockState) => ~user_is_speaking

\* C3: two stop() calls in a row invoke on_disconnected at most once.
C3_StopTwiceOneDisconnect ==
    \A c \in Callers :
        caller[c].op = "stop" => caller[c].before + caller[c].disconnects <= 1

\* C4: every stop() that has been called returns.
C4_StopReturns ==
    \A c \in Callers :
        (caller[c].op = "stop" /\ caller[c].pc # "idle") ~> (caller[c].pc = "idle")

\* C5: when stop() returns the socket handle is absent, the turn flag false,
\* the timestamp unset, the event cleared, and on_disconnected was invoked.
C5_StopLeavesStateReset ==
    [][\A c \in Callers : Returns(c, "stop") =>
          /\ websocket' = None /\ ~user_is_speaking' /\ audio_age' = NoAudio
          /\ ~connection_established'
          /\ caller'[c].disconnects >= 1]_vars

\* C6: when from some point on the socket stays open, the turn flag stays
\* true and the caller sends no audio, the watchdog sends silence again and
\* again, also when no audio was ever sent on the connection.
CallerSilent == \A c \in Callers : caller[c].op # "send_audio"

C6_SilenceWhileCallerIdle ==
    <>[](IsOpen(websocket, sockState) /\ user_is_speaking /\ CallerSilent)
        => []<>(\E s \in Socks : wd[s].pc = "send")

\* C7: the watchdog starts a silence send only while the turn flag is true.
C7_NoSilenceOutsideTurn ==
    [][\A s \in Socks : wd[s].pc # "send" /\ wd'[s].pc = "send" => user_is_speaking]_vars

\* C7 happens: the watchdog of an open socket is about to make a pass outside
\* a turn, more than 0.5 s after the last audio.
C7_StaleOutsideTurn ==
    /\ IsOpen(websocket, sockState) /\ ~user_is_speaking /\ audio_age = Stale
    /\ wd[websocket].pc = "run" /\ ~wd[websocket].cancel

\* C8: a start() whose wait for "Connected" timed out returns False with
\* both tasks of its socket ended, the socket closed and the handle released,
\* and on_error invoked.
C8_TimeoutTearsDown ==
    [][\A c \in Callers : Returns(c, "start") /\ caller[c].timedout =>
          /\ caller'[c].ret = "False"
          /\ websocket' = None
          /\ ~Running(recv'[caller[c].sock]) /\ ~Running(wd'[caller[c].sock])
          /\ sockState'[caller[c].sock] = "CLOSED"
          /\ caller[c].errors = 1]_vars

\* C8 happens: a start() that timed out has torn the session down and is in
\* the error callback, about to return.
C8_TimedOutInErrorCallback ==
    \E c \in Callers :
        /\ caller[c].op = "start" /\ caller[c].timedout
        /\ caller[c].pc = "cb_error" /\ recv[caller[c].sock].pc = "done"

Unskipped(rv) == [s \in Socks |-> [rv[s] EXCEPT !.skip = ""]]

C10_MalformedFrameIgnored ==
    [][\A s \in Socks : Handles(s) /\ Malformed(Head(inbox[s])) =>
          /\ UNCHANGED <<websocket, receive_task, watchdog_task,
                         connection_established, user_is_speaking, audio_age,
                         sockState, wd, caller, acked, connected_calls>>
          /\ Unskipped(recv') = Unskipped(recv)
          /\ inbox'[s] = Tail(inbox[s])]_vars

\* C10 happens: a running loop has just ignored a malformed frame and a
\* StartOfTurn has arrived after it.
C10_ValidAfterMalformed ==
    \E s \in Socks :
        /\ recv[s].skip = "malformed" /\ recv[s].pc = "run"
        /\ inbox[s] = <<FStartOfTurn>>

\* C11: with a threshold configured, an EndOfTurn whose words have a mean
\* confidence below it awaits no callback, and one whose mean is at or above
\* it awaits on_end_of_turn.
C11_FilterByMean ==
    [][\A s \in Socks :
          Handles(s) /\ IsTurnEvent(Head(inbox[s]), "EndOfTurn")
          /\ params.min_confidence # 0
          /\ Head(inbox[s]).words.shape = "objects"
          /\ Numeric(Head(inbox[s]).words.conf) # <<>> =>
              LET conf == Numeric(Head(inbox[s]).words.conf) IN
              IF SumSeq(conf) < params.min_confidence * Len(conf)
              THEN recv'[s].pc = "run"
              ELSE recv'[s].pc = "cb" /\ recv'[s].cb = "on_end_of_turn"]_vars

\* C12: callbacks are delivered in the order in which their frames arrived:
\* no frame's callback is started after the callback of a frame that arrived
\* later.  (A frame starts at most one callback, in the step that takes it.)
C12_CallbacksInArrivalOrder ==
    [][\A s \in Socks :
          Handles(s) /\ recv'[s].pc = "cb" /\ ~recv'[s].last =>
              ~Oldest(arrivals, s).overtaken]_vars

\* The callbacks in progress: those awaited by a public call and those
\* awaited by a receive loop.
InCallback ==
    {<<"caller", c>> : c \in {x \in Callers : caller[x].pc \in
                                 {"cb_connected", "cb_disconnected", "cb_error"}}}
    \cup {<<"loop", s>> : s \in {x \in Socks : recv[x].pc = "cb"}}

\* C13: at most one callback of the session is in progress at a time.
C13_NoOverlappingCallbacks == Cardinality(InCallback) <= 1

\* A start() that is opening a socket or waiting for the "Connected" ack.
Connecting ==
    {c \in Callers : caller[c].op = "start"
                     /\ caller[c].pc \in {"connecting", "await_ack"}}

\* C14: a session has at most one outstanding connect attempt.
C14_OneConnectAttempt == Cardinality(Connecting) <= 1

\* C15: at most one receive loop and at most one watchdog are running.
C15_OneLoopOneWatchdog ==
    /\ Cardinality({s \in Socks : Running(recv[s])}) <= 1
    /\ Cardinality({s \in Socks : Running(wd[s])}) <= 1

\* C16: when stop() returns no receive loop and no watchdog of the session
\* is running and every socket it opened is closed.
C16_StopLeaksNothing ==
    [][\A c \in Callers : Returns(c, "stop") =>
          \A s \in Socks :
              /\ ~Running(recv'[s]) /\ ~Running(wd'[s])
              /\ sockState'[s] \in {"unopened", "CLOSED"}]_vars

\* The connection is Open: the socket is open and its "Connected" was seen.
ConnectionOpen == IsOpen(websocket, sockState) /\ acked[websocket]

\* C17: a send_audio() called while the connection is not Open returns at
\* once, writes no frame and leaves the timestamp as it was.
C17_NoSendUnlessOpen ==
    [][\A c \in Callers :
          /\ caller[c].pc = "idle" /\ caller'[c] # caller[c]
          /\ caller'[c].op = "send_audio" /\ ~ConnectionOpen
          => caller'[c].pc = "idle" /\ audio_age' = audio_age]_vars

\* C18: every public call returns normally: start() True or False, stop()
\* and send_audio() None; a start() that returns False and a send_audio()
\* whose send failed have invoked the error callback.
C18_CallsReturnNormally ==
    [][\A c \in Callers :
          /\ Returns(c, "start") =>
                 /\ caller'[c].ret \in {"True", "False"}
                 /\ caller'[c].ret = "False" => caller[c].errors >= 1
          /\ Returns(c, "stop") => caller'[c].ret = "None"
          /\ Returns(c, "send_audio") => caller'[c].ret = "None"]_vars

\* C18 happens: websocket_connect has raised and start() is in the error
\* callback, about to return False.
C18_OpenFailedInErrorCallback ==
    \E c \in Callers :
        /\ caller[c].op = "start" /\ caller[c].pc = "cb_error"
        /\ ~caller[c].timedout /\ caller[c].errors = 1

\* C19: when the receive loop handles an "Error" message the session is torn
\* down: as the error callback fires the turn flag is false, the socket is
\* no longer open and the watchdog has been stopped or told to stop.
C19_FatalErrorTearsDown ==
    [][\A s \in Socks :
          Handles(s) /\ Head(inbox[s]) = FError =>
              /\ recv'[s].pc = "cb" /\ recv'[s].cb = "on_error"
              /\ ~user_is_speaking'
              /\ sockState'[s] # "OPEN"
              /\ ~Running(wd'[s]) \/ wd'[s].cancel]_vars

\* C20: a start() that returns False has invoked the error callback exactly
\* once; every "Error" message the receive loop handles starts one error
\* callback; and a start() whose wait for "Connected" has timed out does get
\* to invoke the error callback.
C20_FailureReportedOnce ==
    /\ [][\A c \in Callers :
             Returns(c, "start") /\ caller'[c].ret = "False" =>
                 caller[c].errors = 1]_vars
    /\ [][\A s \in Socks :
             Handles(s) /\ Head(inbox[s]) = FError =>
                 recv'[s].pc = "cb" /\ recv'[s].cb = "on_error"]_vars
    /\ \A c \in Callers :
           (caller[c].op = "start" /\ caller[c].timedout)
               ~> (caller[c].op = "start" /\ caller[c].errors = 1)

\* The step leaves the connection as it was: the socket handle and its state,
\* both tasks and the turn flag.
Untouched(tasks, tasks1) ==
    /\ websocket' = websocket /\ sockState' = sockState
    /\ receive_task' = receive_task /\ watchdog_task' = watchdog_task
    /\ user_is_speaking' = user_is_speaking
    /\ recv' = recv /\ tasks1 = tasks

\* C21: a send_audio() whose send raised awaits the error callback and
\* returns with the connection as it was; a watchdog whose silence send
\* raised awaits the error callback, with the connection as it was.
C21_SendFailureReported ==
    [][/\ \A c \in Callers :
             caller[c].op = "send_audio" /\ caller'[c].op = "send_audio"
             /\ caller'[c] # caller[c] /\ caller[c].pc \in {"sending", "cb_error"} =>
                 Untouched(wd, wd')
       /\ \A s \in Socks :
             wd[s].pc = "send" /\ wd'[s].raised =>
                 /\ wd'[s].pc = "cb" /\ wd'[s].cb = "on_error"
                 /\ Untouched([wd EXCEPT ![s] = NoTask],
                              [wd' EXCEPT ![s] = NoTask])]_vars

\* C22: a socket is opened only by a start() call that is waiting in
\* websocket_connect, and becomes that call's socket.
C22_OpenedOnlyByStart ==
    [][\A s \in Socks : sockState[s] = "unopened" /\ sockState'[s] # "unopened" =>
          \E c \in Callers :
              /\ caller[c].op = "start" /\ caller[c].pc = "connecting"
              /\ caller'[c].sock = s /\ websocket' = s]_vars

\* C22 happens: the first connection has ended by a server-side close, its
\* tasks are done, start() has returned, and no second socket was opened.
C22_ClosedAndNotReopened ==
    /\ sockState[1] = "CLOSED" /\ recv[1].pc = "done" /\ wd[1].pc = "done"
    /\ sockState[2] = "unopened"
    /\ \A c \in Callers : caller[c].pc = "idle"

\* C23: a session whose encoding is not linear16 opens no socket and makes
\* no connect attempt, and its start() never returns True.
C23_InvalidConfigFailsFast ==
    params.encoding # Linear16 =>
        /\ \A s \in Socks : sockState[s] = "unopened"
        /\ \A c \in Callers :
              /\ caller[c].pc \notin {"connecting", "await_ack"}
              /\ caller[c].op = "start" => caller[c].ret # "True"

\* The step is the end, by return or by exception, of a callback awaited by
\* receive loop s that is not the loop's last.
Resumes(s) ==
    /\ recv[s].pc = "cb" /\ ~recv[s].cancel /\ ~recv[s].last
    /\ recv'[s].pc # "cb"

\* C24: when a callback awaited by the receive loop ends, by return or by
\* exception, the loop goes back to receiving with the turn flag and the
\* buffered frames as they were; and a loop one of whose callbacks has
\* raised handles every later frame as the handlers prescribe, callback
\* included.
C24_CallbackErrorContained ==
    [][\A s \in Socks :
          /\ Resumes(s) =>
                 /\ recv'[s].pc = "run"
                 /\ user_is_speaking' = user_is_speaking
                 /\ recv'[s].turn = recv[s].turn
                 /\ inbox'[s] = inbox[s]
          /\ Handles(s) /\ recv[s].raised =>
                 LET e == receive_one(Head(inbox[s]), user_is_speaking) IN
                 /\ user_is_speaking' = e.speaking
                 /\ e.cb # NoCb => recv'[s].pc = "cb" /\ recv'[s].cb = e.cb]_vars

\* C24 happens: on_start_of_turn has raised, and the loop is now in
\* on_end_of_turn for the EndOfTurn that followed.
C24_DispatchAfterRaise ==
    \E s \in Socks :
        /\ recv[s].raised /\ recv[s].pc = "cb" /\ recv[s].cb = "on_end_of_turn"
        /\ ~user_is_speaking

\* The callback attribute an inbound frame is meant for, NoCb when none.
CallbackOf(f) ==
    IF Skip(f) # "" \/ IsConnected(f) THEN NoCb
    ELSE IF f.type = "Error" THEN "on_error"
    ELSE CASE f.event = "StartOfTurn" -> "on_start_of_turn"
           [] f.event = "TurnResumed" -> "on_turn_resumed"
           [] f.event = "EndOfTurn" -> "on_end_of_turn"
           [] f.event = "EagerEndOfTurn" -> "on_eager_end_of_turn"
           [] f.event = "Update" -> "on_update"

\* C25: whichever handlers are set, handling a frame sets the turn flag and
\* the pending-connect event as the frame's kind prescribes, and when the
\* frame's handler is not set the loop goes on receiving; a start() returns
\* True after the ack without on_connected and False after a failure
\* without on_error; a stop() resets the state without on_disconnected.
C25_HandlersOptional ==
    [][/\ \A s \in Socks : Handles(s) =>
             LET f == Head(inbox[s]) IN
             /\ user_is_speaking' = InTurn(f, user_is_speaking)
             /\ connection_established' = (connection_established \/ IsConnected(f))
             /\ CallbackOf(f) \notin params.handlers =>
                    recv'[s].pc = "run" /\ recv'[s].cb = NoCb
       /\ \A c \in Callers :
             /\ caller[c].pc = "await_ack" /\ caller[c].ack /\ caller'[c] # caller[c]
                /\ "on_connected" \notin params.handlers =>
                    Returns(c, "start") /\ caller'[c].ret = "True"
             /\ caller[c].pc = "connecting" /\ caller'[c].pc # "await_ack"
                /\ caller'[c] # caller[c] /\ "on_error" \notin params.handlers =>
                    Returns(c, "start") /\ caller'[c].ret = "False"
             /\ Returns(c, "stop") =>
                    /\ websocket' = None /\ ~user_is_speaking'
                    /\ audio_age' = NoAudio /\ ~connection_established'
                    /\ \A s \in Socks : ~Running(recv'[s]) /\ ~Running(wd'[s])]_vars

\* C25 happens: with no handler set, the loop has handled a StartOfTurn: the
\* turn flag is true and the loop is receiving again.
C25_TurnStartedUnheard ==
    /\ params.handlers = {} /\ user_is_speaking
    /\ \E s \in Socks : recv[s].pc = "run" /\ recv[s].turn

\* C26: a watchdog is running only while its socket is the session's socket,
\* open and acknowledged by the server's "Connected".
C26_WatchdogOnlyWhileOpen ==
    \A s \in Socks : Running(wd[s]) => websocket = s /\ ConnectionOpen

\* Caller c is inside stop().
Stopping(c) == caller[c].op = "stop" /\ caller[c].pc # "idle"

\* C27: a stop() begins the CloseStream send only when both tasks of the
\* socket have ended; it begins to close an open socket only after the
\* CloseStream send, whether that returned or raised; it sends CloseStream
\* once; and once close() is over it resets the state and awaits
\* on_disconnected.
C27_TeardownOrder ==
    [][\A c \in Callers : caller'[c].op = "stop" /\ caller'[c] # caller[c] =>
          /\ caller'[c].pc = "send_close" =>
                 /\ ~Stopping(c) \/ caller[c].pc \in {"wait_recv", "wait_wd"}
                 /\ ~Running(recv'[caller'[c].t]) /\ ~Running(wd'[caller'[c].t])
                 /\ receive_task' = None /\ watchdog_task' = None
          /\ caller'[c].pc = "closing" /\ sockState[caller'[c].t] = "OPEN" =>
                 Stopping(c) /\ caller[c].pc = "send_close"
          /\ Stopping(c) /\ caller[c].pc = "send_close" =>
                 caller'[c].pc = "closing"
          /\ Stopping(c) /\ caller[c].pc = "closing" =>
                 /\ websocket' = None /\ ~user_is_speaking' /\ audio_age' = NoAudio
                 /\ caller'[c].pc = "cb_disconnected"]_vars

\* C27 happens: a stop() has sent CloseStream on the open socket, with both
\* tasks ended, and is closing it.
C27_ClosingAfterCloseStream ==
    \E c \in Callers :
        /\ Stopping(c) /\ caller[c].pc = "closing"
        /\ sockState[caller[c].t] = "CLOSING"
        /\ recv[caller[c].t].pc = "done" /\ wd[caller[c].t].pc = "done"

\* The characters of str before the first sep (all of it when there is
\* none), and those after it.
RECURSIVE Before(_, _)
Before(str, sep) ==
    IF str = <<>> \/ Head(str) = sep THEN <<>>
    ELSE <<Head(str)>> \o Before(Tail(str), sep)

After(str, sep) ==
    SubSeq(str, Len(Before(str, sep)) + 2, Len(str))

\* str.split(sep)
RECURSIVE Split(_, _)
Split(str, sep) ==
    IF Len(Before(str, sep)) = Len(str) THEN <<str>>
    ELSE <<Before(str, sep)>> \o Split(After(str, sep), sep)

\* The inverse of the escaping: "+" is a space, %XX the character.
RECURSIVE unquote_plus(_)
unquote_plus(str) ==
    IF str = <<>> THEN <<>>
    ELSE IF Head(str) = "+" THEN <<" ">> \o unquote_plus(Tail(str))
    ELSE IF Head(str) = "%" /\ Len(str) >= 3
            /\ \E c \in DOMAIN Escapes : Escapes[c] = SubSeq(str, 1, 3)
    THEN <<CHOOSE c \in DOMAIN Escapes : Escapes[c] = SubSeq(str, 1, 3)>>
         \o unquote_plus(SubSeq(str, 4, Len(str)))
    ELSE <<Head(str)>> \o unquote_plus(Tail(str))

\* The query of a URL as a server reads it: the name and value of each
\* parameter, in order.
ParseQuery(url) ==
    LET parts == Split(After(url, "?"), "&") IN
    [i \in 1..Len(parts) |-> <<unquote_plus(Before(parts[i], "=")),
                               unquote_plus(After(parts[i], "="))>>]

\* The parameters a configuration stands for.
QueryOf(P) ==
    LET Opt(name, field, fmt(_)) ==
            IF field = <<>> THEN <<>> ELSE <<<<name, fmt(field[1])>>>>
        Each(name, list) == [i \in 1..Len(list) |-> <<name, list[i]>>]
    IN  <<<<Keys.model, P.model>>,
          <<Keys.sample_rate, Decimal(P.sample_rate)>>,
          <<Keys.encoding, P.encoding>>>>
        \o Opt(Keys.eager_eot_threshold, P.eager_eot_threshold, FloatRepr)
        \o Opt(Keys.eot_threshold, P.eot_threshold, FloatRepr)
        \o Opt(Keys.eot_timeout_ms, P.eot_timeout_ms, Decimal)
        \o Opt(Keys.mip_opt_out, P.mip_opt_out, LAMBDA b : Lower(BoolStr(b)))
        \o Each(Keys.keyterm, P.keyterm)
        \o Each(Keys.tag, P.tag)

\* C28: once start() has built the URL, its query read back is: model,
\* sample_rate and encoding with the configured values, then each optional
\* scalar that is set, then one keyterm parameter per keyterm and one tag
\* parameter per tag, in order and with the values as configured; and the
\* URL is the endpoint followed by "?" and that query.
C28_QueryFromConfiguration ==
    websocket_url # <<>> =>
        /\ ParseQuery(websocket_url) = QueryOf(params)
        /\ Before(websocket_url, "?") = params.url

\* C28 happens: start() has built the URL of a configuration with two
\* keyterms, one of them with characters that need escaping.
C28_TwoKeytermsBuilt ==
    /\ websocket_url # <<>> /\ params.keyterm = <<Quarterly, Phrase>>
    /\ \E c \in Callers : caller[c].op = "start"

\* C29: handling a TurnResumed, an Update or an EagerEndOfTurn leaves the
\* turn flag as it was; the flag changes only in a step that handles a
\* StartOfTurn (to true) or an EndOfTurn (to false), or in a step of start()
\* or stop() (to false).
C29_TurnFlagWriters ==
    [][/\ \A s \in Socks :
             Handles(s) /\ (\/ IsTurnEvent(Head(inbox[s]), "TurnResumed")
                            \/ IsTurnEvent(Head(inbox[s]), "Update")
                            \/ IsTurnEvent(Head(inbox[s]), "EagerEndOfTurn")) =>
                 user_is_speaking' = user_is_speaking
       /\ user_is_speaking' # user_is_speaking =>
             \/ \E s \in Socks : /\ Handles(s) /\ user_is_speaking'
                                  /\ IsTurnEvent(Head(inbox[s]), "StartOfTurn")
             \/ \E s \in Socks : /\ Handles(s) /\ ~user_is_speaking'
                                  /\ IsTurnEvent(Head(inbox[s]), "EndOfTurn")
             \/ \E c \in Callers : /\ caller'[c] # caller[c] /\ ~user_is_speaking'
                                    /\ caller'[c].op \in {"start", "stop"}]_vars

\* C29 happens: in a turn, the loop is in on_eager_end_of_turn and the turn
\* flag is still true.
C29_EagerInTurn ==
    /\ user_is_speaking
    /\ \E s \in Socks : recv[s].pc = "cb" /\ recv[s].cb = "on_eager_end_of_turn"

\* C30: handling a StartOfTurn, a TurnResumed or an EagerEndOfTurn (whatever
\* the confidence of its words) starts the callback of that event; handling
\* an Update starts on_update when the transcript is not empty and no
\* callback when it is.
C30_OwnCallbackOnly ==
    [][\A s \in Socks : Handles(s) =>
          LET f == Head(inbox[s])
              starts(cb) == recv'[s].pc = "cb" /\ recv'[s].cb = cb IN
          /\ IsTurnEvent(f, "StartOfTurn") => starts("on_start_of_turn")
          /\ IsTurnEvent(f, "TurnResumed") => starts("on_turn_resumed")
          /\ IsTurnEvent(f, "EagerEndOfTurn") => starts("on_eager_end_of_turn")
          /\ IsTurnEvent(f, "Update") =>
                 IF f.transcript # "" THEN starts("on_update")
                 ELSE recv'[s].pc = "run" /\ recv'[s].cb = NoCb]_vars

\* C30 happens: with min_confidence = 0.7 and every EagerEndOfTurn of the
\* server carrying words that average 0.5, the loop is in
\* on_eager_end_of_turn.
C30_EagerBelowThreshold ==
    /\ params.min_confidence = 70
    /\ \A f \in env.frames : IsTurnEvent(f, "EagerEndOfTurn") => f = FEagerLow
    /\ \E s \in Socks : recv[s].pc = "cb" /\ recv[s].cb = "on_eager_end_of_turn"

\* The payload has no confidence to average: no words, an empty list, or
\* objects without a number.
NoConfidence(f) ==
    \/ f.words.shape = "absent"
    \/ f.words.shape = "objects" /\ Numeric(f.words.conf) = <<>>

\* C31: handling an EndOfTurn leaves the turn flag false, whether or not a
\* callback follows; and with a minimum confidence configured an EndOfTurn
\* without a confidence to average starts on_end_of_turn.
C31_EndOfTurnEndsTurn ==
    [][\A s \in Socks : Handles(s) /\ IsTurnEvent(Head(inbox[s]), "EndOfTurn") =>
          /\ ~user_is_speaking'
          /\ params.min_confidence # 0 /\ NoConfidence(Head(inbox[s])) =>
                 recv'[s].pc = "cb" /\ recv'[s].cb = "on_end_of_turn"]_vars

\* C31 happens: with min_confidence = 0.7 and a server none of whose
\* EndOfTurn frames reaches the threshold, the loop is in on_end_of_turn,
\* the turn it had seen begin being over.
C31_UnmeasuredEndDelivered ==
    /\ params.min_confidence = 70
    /\ \A f \in env.frames :
          IsTurnEvent(f, "EndOfTurn") => NoConfidence(f) \/ f = FEndLow
    /\ ~user_is_speaking
    /\ \E s \in Socks : recv[s].pc = "cb" /\ recv[s].cb = "on_end_of_turn"

\* C32: taking a binary frame, a message of an unknown type or a TurnInfo
\* with an unknown or missing event changes nothing but the inbox: no
\* callback is awaited, the session state and the tasks are as before, and
\* the loop goes on to the next frame.
C32_UnknownFrameIgnored ==
    [][\A s \in Socks :
          Handles(s) /\ Skip(Head(inbox[s])) \in {"binary", "type", "event"} =>
              /\ UNCHANGED <<websocket, receive_task, watchdog_task,
                             connection_established, user_is_speaking, audio_age,
                             sockState, wd, caller, acked, connected_calls>>
              /\ Unskipped(recv') = Unskipped(recv)
              /\ recv'[s].pc = "run"
              /\ inbox'[s] = Tail(inbox[s])]_vars

\* C32 happens: in a turn, a running loop has just ignored a TurnInfo with
\* an unknown event and a StartOfTurn has arrived after it.
C32_ValidAfterUnknown ==
    \E s \in Socks :
        /\ recv[s].skip = "event" /\ recv[s].pc = "run" /\ user_is_speaking
        /\ inbox[s] = <<FStartOfTurn>>

\* C33: no text frame ends the receive loop: after taking one, the loop is
\* neither finished nor in the error callback of its outer except, after
\* which it finishes.
C33_TextFrameKeepsLoop ==
    [][\A s \in Socks : Handles(s) /\ ~Head(inbox[s]).bin =>
          recv'[s].pc # "done" /\ ~recv'[s].last]_vars

\* The receive task on socket s is inside a stop() that its callback called,
\* awaiting on_disconnected in the finally clause.
Disconnecting(rv, s) == rv[s].pc = "stop" /\ rv[s].at = "cb_disconnected"

\* C34: a stop() called from a callback on the receive loop always comes to
\* an end; it ends only after awaiting on_disconnected, and the step that
\* enters that callback leaves the handle, the turn flag and the audio
\* timestamp reset.
C34_StopFromCallbackCompletes ==
    /\ \A s \in Socks : (recv[s].pc = "stop") ~> (recv[s].pc # "stop")
    /\ [][\A s \in Socks :
            /\ recv[s].pc = "stop" /\ recv'[s].pc # "stop" => Disconnecting(recv, s)
            /\ ~Disconnecting(recv, s) /\ Disconnecting(recv', s) =>
                   /\ websocket' = None /\ ~user_is_speaking'
                   /\ audio_age' = NoAudio]_vars

\* C34 happens: the error callback of a receive loop called stop() while its
\* caller was idle after start(); that stop() went past the wait for its own
\* task, closed the socket and awaits on_disconnected.
C34_ErrorCallbackStopped ==
    \E s \in Socks :
        /\ Disconnecting(recv, s) /\ recv[s].cb = "on_error" /\ ~recv[s].cancel
        /\ sockState[s] = "CLOSED" /\ receive_task = None
        /\ caller[1].op = "start" /\ caller[1].pc = "idle" /\ caller[1].ret = "True"

\* C35: a broadcast has called the push fallback only if none of its sends
\* has succeeded, and when it has returned it has called it exactly if none
\* of its sends succeeded.
C35_PushIffNoDelivery ==
    \A b \in Broadcasts :
        /\ broadcast[b].pushed => broadcast[b].sent = {}
        /\ broadcast[b].pc = "done" =>
               (broadcast[b].pushed <=> broadcast[b].sent = {})

\* C35 happens: a broadcast has returned after a send that raised, either
\* without the fallback because another send succeeded, or after the
\* fallback because none did.
C35_MixedBroadcastReturned ==
    \E b \in Broadcasts :
        /\ broadcast[b].pc = "done" /\ broadcast[b].raised # {}
        /\ \/ broadcast[b].sent # {} /\ ~broadcast[b].pushed
           \/ broadcast[b].sent = {} /\ broadcast[b].pushed

\* C36: when a broadcast returns, the connections whose send raised are not
\* in the list, those whose send succeeded and which no one disconnected
\* are, and each connection that was in the list from the call to the return
\* has been sent to once.
C36_BroadcastReachesEveryone ==
    [][\A b \in Broadcasts :
          broadcast[b].pc # "done" /\ broadcast'[b].pc = "done" =>
              \A w \in Connections :
                  /\ w \in broadcast'[b].raised => w \notin Members(active_connections')
                  /\ w \in broadcast'[b].sent \cap broadcast'[b].steady =>
                         w \in Members(active_connections')
                  /\ w \in broadcast'[b].steady => broadcast'[b].attempts[w] = 1]_vars

\* C37: a start() called while the socket is open returns True in the same
\* step, and that step leaves the socket, both tasks, the turn flag, the
\* event and the count of on_connected invocations as they are.
C37_StartOnOpenSocket ==
    [][\A c \in Callers :
          /\ At(c, "idle") /\ IsOpen(websocket, sockState)
          /\ caller'[c] # caller[c] /\ caller'[c].op = "start"
          => /\ caller'[c].pc = "idle" /\ caller'[c].ret = "True"
             /\ UNCHANGED <<websocket, sockState, receive_task, watchdog_task,
                            recv, wd, user_is_speaking, connection_established,
                            connected_calls>>]_vars

\* C37 happens: in a turn, while one task's start() waits for the ack on
\* the only socket, another task's start() has returned True, and
\* on_connected has not been invoked.
C37_SecondStartReturned ==
    /\ IsOpen(websocket, sockState) /\ user_is_speaking
    /\ caller[1].pc = "await_ack" /\ connected_calls[websocket] = 0
    /\ caller[2].op = "start" /\ caller[2].pc = "idle" /\ caller[2].ret = "True"

\* C38: when a receive loop that has handled the Connected of its socket
\* starts a turn-event callback, on_connected has been invoked for that
\* socket.
C38_ConnectedCallbackFirst ==
    [][\A s \in Socks :
          /\ acked[s] /\ recv[s].pc # "cb" /\ recv'[s].pc = "cb"
          /\ recv'[s].cb \in {"on_start_of_turn", "on_update", "on_turn_resumed",
                              "on_eager_end_of_turn", "on_end_of_turn"}
          => connected_calls[s] > 0]_vars

\* A stop() has written CloseStream to socket s and its send has not yet
\* returned; once it has, the socket is no longer open.
CloseStreamWritten(s) ==
    \/ \E d \in Callers : /\ caller[d].op = "stop" /\ caller[d].pc = "send_close"
                           /\ caller[d].t = s
    \/ \E x \in Socks : recv[x].pc = "stop" /\ recv[x].at = "send_close"
                           /\ recv[x].t = s

\* C39: no send_audio() and no watchdog starts to send on a socket to which
\* CloseStream has been written.
C39_NoAudioAfterCloseStream ==
    [][/\ \A c \in Callers :
             caller[c].pc # "sending" /\ caller'[c].pc = "sending" =>
                 ~CloseStreamWritten(caller'[c].t)
       /\ \A s \in Socks :
             wd[s].pc # "send" /\ wd'[s].pc = "send" =>
                 ~CloseStreamWritten(websocket)]_vars

\* The session's connection on socket s, acknowledged by the server and
\* handed over by a start() that returned True, is closed, and no caller has
\* called anything since.
Lost(s) ==
    /\ websocket = s /\ acked[s] /\ sockState[s] = "CLOSED"
    /\ \A c \in env.callers :
          caller[c].op = "start" /\ caller[c].pc = "idle" /\ caller[c].ret = "True"

\* on_error or on_disconnected is being awaited.
Notified ==
    \/ \E s \in Socks : recv[s].pc = "cb" /\ recv[s].cb = "on_error"
    \/ \E c \in Callers : caller[c].pc \in {"cb_error", "cb_disconnected"}

\* C40: once the connection is lost, on_error or on_disconnected is
\* eventually invoked unless a caller calls the session first, and
\* is_connected is false.
C40_LossNotified ==
    /\ \A s \in Socks : Lost(s) ~> (Notified \/ ~Lost(s))
    /\ [](\A s \in Socks : Lost(s) => ~IsOpen(websocket, sockState))

====
